---- MODULE Spec2Model ----
(***************************************************************************)
(* Process-lifecycle simulator: SimulatorEngine (src/src/core/simulator.py) *)
(* driving PriorityScheduler (src/src/core/scheduler.py) over Process       *)
(* records (src/src/models/process.py).                                     *)
(*                                                                          *)
(* Every public operation of the engine is one action.  The engine is       *)
(* single-threaded, so an operation runs to completion: its body is         *)
(* computed by operators over an engine record `e` (the fields of the       *)
(* engine and of its scheduler) and installed in one step.  The draws of    *)
(* the random module are nondeterministic choices, so an operation that     *)
(* draws yields a set of outcomes.                                          *)
(***************************************************************************)
EXTENDS Integers, Sequences, FiniteSets, TLC

\* ---------------------------------------------------------------- bounds
MaxProcs == 2        \* create_process is disabled once this many pids exist
MaxTick == 2         \* tick_simulation is disabled at this tick
FamilySize == 3      \* processes of the parent/child specification
FamilyTicks == 3
PreemptProcs == 3
PreemptTicks == 5
SchedProcs == 3
OpsProcs == 2        \* processes of the scheduler-operations specification
OpsSwitches == 3     \* set_running is disabled at this many context switches
OpsTicks == 2        \* PriorityScheduler.tick is disabled at this counter
UnblockProcs == 2
UnblockTicks == 4
MaxThreads == 2      \* background threads alive at once
ThreadTicks == 2
LoneMaxBurst == 6
LoneMaxQuantum == 4
EdgeProcs == 2
EdgeTicks == 3
BlockProcs == 2
BlockTicks == 4     \* its last tick
ReplayProcs == 2
ReplayTicks == 21
AgingProcs == 3
DriverProcs == 6     \* the five initial processes and one more
DriverTicks == 1
AgingTicks == 21    \* one tick past the first aging pass

\* ------------------------------------------------------ program constants
max_priority_levels == 10
priority_boost_interval == 20
DefaultQuantum == 3
DefaultPBlock == 10          \* p_block = 0.1, in hundredths
DefaultAutoReap == 10
AgingChance == 30            \* random.random() < 0.3, in hundredths
InitBurst == 999999
InitialProcesses == 5        \* for i in range(1, 6)

None == -1                   \* Python None for optional non-negative ints

\* random.random(), in hundredths: one draw below every positive threshold
\* used by the code (0.1, 0.3) and one above every threshold.
RandomDraws == {5, 50}
\* random.randint(2, 5) of the random block: the two ends of the range.
BlockIoDraws == {2}
\* random.randint(3, 8) of force_block_process without io_time.
ForceIoDraws == {3}
\* random.randint(5, 15) and random.randint(0, 8) of create_process defaults.
DefaultBurstDraws == {5}
DefaultPriorityDraws == {0, 8}

\* ----------------------------------------------------------------- helpers
Range(s) == {s[i] : i \in 1..Len(s)}

Max2(a, b) == IF a >= b THEN a ELSE b

Min2(a, b) == IF a <= b THEN a ELSE b

\* list.remove(x): drops the first occurrence of x
ListRemove(s, x) ==
    IF x \notin Range(s) THEN s
    ELSE LET i == CHOOSE k \in 1..Len(s) :
                    s[k] = x /\ \A j \in 1..(k - 1) : s[j] # x
         IN SubSeq(s, 1, i - 1) \o SubSeq(s, i + 1, Len(s))

\* Python truthiness of an Optional[int]: None and 0 are falsy
Truthy(n) == n # None /\ n # 0

Levels == 0..(max_priority_levels - 1)

EmptyQueues == [l \in Levels |-> <<>>]

VARIABLES
    tick, pid_counter, process_table, blocked_list, zombie_list,
    cpu_busy_ticks, idle_ticks, p_block, auto_reap_after,
    quantum, priority_queues, current_running_pid, current_quantum_used,
    context_switches, priority_boost_counter,
    is_running, auto_thread, gui_thread, earlier_threads

\* MainWindow (src/src/gui/main_window.py): its is_running flag, the position
\* of its background thread (the Thread object in self.auto_thread), the
\* callback its main thread is in, and the positions of the background
\* threads that were started before that one and have not ended
driver == <<is_running, auto_thread, gui_thread, earlier_threads>>

vars == <<tick, pid_counter, process_table, blocked_list, zombie_list,
          cpu_busy_ticks, idle_ticks, p_block, auto_reap_after,
          quantum, priority_queues, current_running_pid,
          current_quantum_used, context_switches, priority_boost_counter,
          is_running, auto_thread, gui_thread, earlier_threads>>

\* ------------------------------------------------------------ Process
Process(state, burst, priority, parent_pid, created) ==
    [state |-> state, total_burst |-> burst, remaining_burst |-> burst,
     priority |-> priority, parent_pid |-> parent_pid, children |-> <<>>,
     created_tick |-> created, start_tick |-> None, end_tick |-> None,
     blocked_count |-> 0, preempt_count |-> 0, io_remaining |-> 0,
     waiting_for_child |-> FALSE, reaped |-> FALSE]

\* Process.get_turnaround_time(): <<>> for None, <<value>> otherwise
get_turnaround_time(p) ==
    IF p.end_tick # None THEN <<p.end_tick - p.created_tick>> ELSE <<>>

\* the time from the first execution to the end, less the burst
get_waiting_time_from_start(p) ==
    IF p.start_tick # None /\ p.end_tick # None
    THEN <<p.end_tick - p.start_tick - p.total_burst>>
    ELSE <<>>

\* Process.get_waiting_time(): <<>> for None, <<value>> otherwise
get_waiting_time(p) ==
    IF p.start_tick # None /\ p.end_tick # None
    THEN <<get_turnaround_time(p)[1] - p.total_burst>>
    ELSE <<>>

\* ------------------------------------------------------- engine record
\* The mutable fields of SimulatorEngine and of its PriorityScheduler.
\* The engine only appends to event_logs and never reads it, so the log is
\* kept per operation: event_logs of the state an operation returns holds
\* the entries that operation appended (after reset, the whole log).
Engine ==
    [tick |-> tick, pid_counter |-> pid_counter,
     process_table |-> process_table, blocked_list |-> blocked_list,
     zombie_list |-> zombie_list, cpu_busy_ticks |-> cpu_busy_ticks,
     idle_ticks |-> idle_ticks, p_block |-> p_block,
     auto_reap_after |-> auto_reap_after, quantum |-> quantum,
     priority_queues |-> priority_queues,
     current_running_pid |-> current_running_pid,
     current_quantum_used |-> current_quantum_used,
     context_switches |-> context_switches,
     priority_boost_counter |-> priority_boost_counter,
     event_logs |-> <<>>]

InstallEngine(e) ==
    /\ tick' = e.tick
    /\ pid_counter' = e.pid_counter
    /\ process_table' = e.process_table
    /\ blocked_list' = e.blocked_list
    /\ zombie_list' = e.zombie_list
    /\ cpu_busy_ticks' = e.cpu_busy_ticks
    /\ idle_ticks' = e.idle_ticks
    /\ p_block' = e.p_block
    /\ auto_reap_after' = e.auto_reap_after
    /\ quantum' = e.quantum
    /\ priority_queues' = e.priority_queues
    /\ current_running_pid' = e.current_running_pid
    /\ current_quantum_used' = e.current_quantum_used
    /\ context_switches' = e.context_switches
    /\ priority_boost_counter' = e.priority_boost_counter

\* an engine operation called with no window around the engine
Install(e) == InstallEngine(e) /\ UNCHANGED driver

Holds(e) ==
    /\ tick = e.tick
    /\ pid_counter = e.pid_counter
    /\ process_table = e.process_table
    /\ blocked_list = e.blocked_list
    /\ zombie_list = e.zombie_list
    /\ cpu_busy_ticks = e.cpu_busy_ticks
    /\ idle_ticks = e.idle_ticks
    /\ p_block = e.p_block
    /\ auto_reap_after = e.auto_reap_after
    /\ quantum = e.quantum
    /\ priority_queues = e.priority_queues
    /\ current_running_pid = e.current_running_pid
    /\ current_quantum_used = e.current_quantum_used
    /\ context_switches = e.context_switches
    /\ priority_boost_counter = e.priority_boost_counter
    /\ is_running = FALSE
    /\ auto_thread = "none"
    /\ gui_thread = <<"idle">>
    /\ earlier_threads = <<>>

\* SimulatorEngine.__init__ with PriorityScheduler.__init__ and
\* _create_init_process; p_block and auto_reap_after are plain attributes
\* the caller sets after construction.
NewEngine(pb, ar) ==
    [tick |-> 0, pid_counter |-> 1,
     process_table |-> (0 :> Process("RUNNING", InitBurst, 0, None, 0)),
     blocked_list |-> <<>>, zombie_list |-> <<>>,
     cpu_busy_ticks |-> 0, idle_ticks |-> 0,
     p_block |-> pb, auto_reap_after |-> ar,
     quantum |-> DefaultQuantum, priority_queues |-> EmptyQueues,
     current_running_pid |-> None, current_quantum_used |-> 0,
     context_switches |-> 0, priority_boost_counter |-> 0,
     event_logs |-> <<>>]

\* SimulatorEngine.log_event(message): the entry carries the tick, the kind
\* of event and the pid it is about
log_event(e, kind, pid) ==
    [e EXCEPT !.event_logs = Append(@, <<e.tick, kind, pid>>)]

\* ============================================================ scheduler
\* priority = max(0, min(priority, max_priority_levels - 1))
ClampPriority(p) == Max2(0, Min2(p, max_priority_levels - 1))

\* RoundRobinScheduler.add_to_ready: every pid goes to the middle queue
add_to_ready_round_robin(e, pid) ==
    IF pid \notin Range(e.priority_queues[5])
    THEN [e EXCEPT !.priority_queues[5] = Append(@, pid)]
    ELSE e

\* PriorityScheduler.add_to_ready(pid, process_table)
add_to_ready(e, pid) ==
    IF pid \in DOMAIN e.process_table
    THEN LET priority == ClampPriority(e.process_table[pid].priority)
         IN IF pid \notin Range(e.priority_queues[priority])
            THEN [e EXCEPT !.priority_queues[priority] = Append(@, pid)]
            ELSE e
    ELSE IF pid \notin Range(e.priority_queues[5])
         THEN [e EXCEPT !.priority_queues[5] = Append(@, pid)]
         ELSE e

\* PriorityScheduler.remove_from_ready(pid): the first queue that holds pid
\* is rebuilt without it.  The engine keeps a pid in at most one queue, so
\* the order in which the queues are visited is not observable.
remove_from_ready(e, pid) ==
    LET holding == {l \in Levels : pid \in Range(e.priority_queues[l])}
    IN IF holding = {} THEN e
       ELSE LET l == CHOOSE m \in holding : \A k \in holding : m <= k
            IN [e EXCEPT !.priority_queues[l] =
                            SelectSeq(@, LAMBDA x : x # pid)]

\* PriorityScheduler.get_next_process(): <<pid or None, scheduler after>>
RECURSIVE ScanQueues(_, _)
ScanQueues(e, priority) ==
    IF priority > max_priority_levels - 1 THEN <<None, e>>
    ELSE IF e.priority_queues[priority] # <<>>
         THEN <<Head(e.priority_queues[priority]),
                [e EXCEPT !.priority_queues[priority] = Tail(@)]>>
         ELSE ScanQueues(e, priority + 1)

\* scans the queues from the last level down to level 0
RECURSIVE ScanQueuesDown(_, _)
ScanQueuesDown(e, priority) ==
    IF priority < 0 THEN <<None, e>>
    ELSE IF e.priority_queues[priority] # <<>>
         THEN <<Head(e.priority_queues[priority]),
                [e EXCEPT !.priority_queues[priority] = Tail(@)]>>
         ELSE ScanQueuesDown(e, priority - 1)

get_next_process_lowest_first(e) == ScanQueuesDown(e, max_priority_levels - 1)

get_next_process(e) == ScanQueues(e, 0)

\* puts the preempted process at the head of its queue
_preempt_process_to_head(e, pid) ==
    LET priority == ClampPriority(e.process_table[pid].priority)
    IN [e EXCEPT !.process_table[pid].state = "READY",
                 !.process_table[pid].preempt_count = @ + 1,
                 !.priority_queues[priority] =
                     <<pid>> \o SelectSeq(@, LAMBDA x : x # pid),
                 !.current_running_pid = None,
                 !.current_quantum_used = 0,
                 !.context_switches = @ + 1]

\* PriorityScheduler._preempt_process(process, process_table)
_preempt_process(e, pid) ==
    LET e1 == [e EXCEPT !.process_table[pid].state = "READY",
                        !.process_table[pid].preempt_count = @ + 1]
        e2 == add_to_ready(e1, pid)
    IN [e2 EXCEPT !.current_running_pid = None,
                  !.current_quantum_used = 0,
                  !.context_switches = @ + 1]

\* preempts on an exhausted quantum only: the scan of the higher queues is
\* left out
preempt_current_quantum_only(e) ==
    IF e.current_running_pid = None THEN e
    ELSE IF /\ e.current_quantum_used >= e.quantum
            /\ e.current_running_pid \in DOMAIN e.process_table
         THEN _preempt_process(e, e.current_running_pid)
         ELSE e

\* preempts one unit late: current_quantum_used > quantum
preempt_current_late(e) ==
    IF e.current_running_pid = None THEN e
    ELSE LET pid == e.current_running_pid
             known == pid \in DOMAIN e.process_table
         IN IF /\ known
               /\ \E priority \in 0..(e.process_table[pid].priority - 1) :
                     /\ priority \in Levels
                     /\ e.priority_queues[priority] # <<>>
            THEN _preempt_process(e, pid)
            ELSE IF e.current_quantum_used > e.quantum /\ known
                 THEN _preempt_process(e, pid)
                 ELSE e

\* PriorityScheduler.preempt_current(process_table)
preempt_current(e) ==
    IF e.current_running_pid = None THEN e
    ELSE LET pid == e.current_running_pid
             known == pid \in DOMAIN e.process_table
         IN IF /\ known
               /\ \E priority \in 0..(e.process_table[pid].priority - 1) :
                     /\ priority \in Levels
                     /\ e.priority_queues[priority] # <<>>
            THEN _preempt_process(e, pid)
            ELSE IF e.current_quantum_used >= e.quantum /\ known
                 THEN _preempt_process(e, pid)
                 ELSE e

\* PriorityScheduler.set_running(pid, process_table)
set_running(e, pid) ==
    IF pid \in DOMAIN e.process_table
    THEN [e EXCEPT !.process_table[pid].state = "RUNNING",
                   !.current_running_pid = pid,
                   !.current_quantum_used = 0,
                   !.context_switches = @ + 1]
    ELSE e

\* One level of PriorityScheduler._priority_aging: every pid popped from the
\* level's queue draws random.random(); promo is the set of pids whose draw
\* fell below 0.3.  Promoted pids are appended, in queue order, to the queue
\* of the next lower number; the others keep their order.
AgeLevel(e, priority, promo) ==
    LET queue == e.priority_queues[priority]
        known(pid) == pid \in DOMAIN e.process_table
        moves(pid) == known(pid) /\ pid \in promo
        new_priority == Max2(0, priority - 1)
        moved == SelectSeq(queue, moves)
        temp_queue == SelectSeq(queue, LAMBDA pid : ~moves(pid))
    IN [e EXCEPT
          !.process_table =
              [pid \in DOMAIN @ |->
                  IF pid \in Range(moved)
                  THEN [@[pid] EXCEPT !.priority = new_priority]
                  ELSE @[pid]],
          !.priority_queues =
              [l \in Levels |->
                  IF l = priority THEN temp_queue
                  ELSE IF l = new_priority THEN @[l] \o moved
                  ELSE @[l]]]

\* The draws of one level: every pid of its queue draws d = random.random()
\* and is promoted iff d < 0.3.
AgePromoSets(e, priority) ==
    LET queue == Range(e.priority_queues[priority])
    IN {{pid \in queue : draw[pid] < AgingChance} :
            draw \in [queue -> RandomDraws]}

\* PriorityScheduler._priority_aging(process_table): levels 9 down to 1, each
\* level seeing what the level above moved into it.  The set of outcomes.
RECURSIVE AgeFrom(_, _)
AgeFrom(es, priority) ==
    IF priority < 1 THEN es
    ELSE AgeFrom(UNION {{AgeLevel(e, priority, promo) :
                            promo \in AgePromoSets(e, priority)} : e \in es},
                 priority - 1)

_priority_aging(e) ==
    IF DOMAIN e.process_table = {} THEN {e}
    ELSE AgeFrom({e}, max_priority_levels - 1)

\* PriorityScheduler.tick(process_table): the set of outcomes
scheduler_tick(e) ==
    LET e1 == IF e.current_running_pid # None
              THEN [e EXCEPT !.current_quantum_used = @ + 1]
              ELSE e
        e2 == [e1 EXCEPT !.priority_boost_counter = @ + 1]
    IN IF e2.priority_boost_counter >= priority_boost_interval
       THEN {[a EXCEPT !.priority_boost_counter = 0] : a \in _priority_aging(e2)}
       ELSE {e2}

\* writes the priority field and leaves the queues as they are
adjust_priority_in_place(e, pid, new_priority) ==
    IF pid \notin DOMAIN e.process_table THEN <<FALSE, e>>
    ELSE <<TRUE, [e EXCEPT !.process_table[pid].priority =
                               ClampPriority(new_priority)]>>

\* PriorityScheduler.adjust_priority(pid, new_priority, process_table):
\* <<returned bool, state after>>
adjust_priority(e, pid, new_priority) ==
    IF pid \notin DOMAIN e.process_table THEN <<FALSE, e>>
    ELSE LET clamped == ClampPriority(new_priority)
             e1 == [e EXCEPT !.process_table[pid].priority = clamped]
         IN IF e1.process_table[pid].state = "READY"
            THEN <<TRUE, add_to_ready(remove_from_ready(e1, pid), pid)>>
            ELSE <<TRUE, e1>>

\* PriorityScheduler.reset()
scheduler_reset(e) ==
    [e EXCEPT !.priority_queues = EmptyQueues,
              !.current_running_pid = None,
              !.current_quantum_used = 0,
              !.context_switches = 0,
              !.priority_boost_counter = 0]

\* =============================================================== engine
\* SimulatorEngine.create_process(name, burst, parent_pid, priority), the
\* defaults already drawn: <<returned pid, state after>>
create_process(e, burst, parent_pid, priority) ==
    LET pid == e.pid_counter
        e1 == [e EXCEPT !.pid_counter = @ + 1,
                        !.process_table =
                            @ @@ (pid :> Process("NEW", burst, priority,
                                                 parent_pid, e.tick))]
    IN IF Truthy(parent_pid) /\ parent_pid \in DOMAIN e1.process_table
       THEN <<pid, log_event([e1 EXCEPT
                                 !.process_table[parent_pid].children =
                                     Append(@, pid)],
                             "created", pid)>>
       ELSE <<pid, log_event(e1, "created", pid)>>

\* The pids of a dict in insertion order: create_process inserts pid_counter,
\* which only grows, after pid 0.
RECURSIVE SortedPids(_)
SortedPids(S) ==
    IF S = {} THEN <<>>
    ELSE LET m == CHOOSE x \in S : \A y \in S : x <= y
         IN <<m>> \o SortedPids(S \ {m})

\* SimulatorEngine.move_new_to_ready(): <<moved_count, state after>>
RECURSIVE MoveNew(_, _, _)
MoveNew(e, pids, moved_count) ==
    IF pids = <<>> THEN <<moved_count, e>>
    ELSE LET pid == Head(pids)
         IN IF e.process_table[pid].state = "NEW"
            THEN MoveNew(log_event(
                            add_to_ready(
                               [e EXCEPT !.process_table[pid].state = "READY"],
                               pid),
                            "NEW -> READY", pid),
                         Tail(pids), moved_count + 1)
            ELSE MoveNew(e, Tail(pids), moved_count)

\* visits the table from the highest pid down
RECURSIVE Reverse(_)
Reverse(s) == IF s = <<>> THEN <<>> ELSE Append(Reverse(Tail(s)), Head(s))

move_new_to_ready_descending(e) ==
    MoveNew(e, Reverse(SortedPids(DOMAIN e.process_table)), 0)

move_new_to_ready(e) == MoveNew(e, SortedPids(DOMAIN e.process_table), 0)

\* "Liberar CPU si estaba corriendo"
ReleaseCpu(e, pid) ==
    IF e.current_running_pid = pid
    THEN [e EXCEPT !.current_running_pid = None, !.current_quantum_used = 0]
    ELSE e

\* blocks the running process without releasing the CPU
force_block_process_keeps_slot(e, pid, io_time) ==
    IF pid \notin DOMAIN e.process_table \/ pid = 0 THEN <<FALSE, e>>
    ELSE IF e.process_table[pid].state \notin {"READY", "RUNNING"}
    THEN <<FALSE, e>>
    ELSE LET e1 == remove_from_ready(e, pid)
         IN <<TRUE, log_event(
                       [e1 EXCEPT !.process_table[pid].state = "BLOCKED",
                                  !.process_table[pid].io_remaining = io_time,
                                  !.process_table[pid].blocked_count = @ + 1,
                                  !.blocked_list = Append(@, pid)],
                       "forced BLOCKED", pid)>>

\* blocks without taking the pid out of its ready queue
force_block_process_keeps_ready(e, pid, io_time) ==
    IF pid \notin DOMAIN e.process_table \/ pid = 0 THEN <<FALSE, e>>
    ELSE IF e.process_table[pid].state \notin {"READY", "RUNNING"}
    THEN <<FALSE, e>>
    ELSE LET e1 == ReleaseCpu(e, pid)
         IN <<TRUE, [e1 EXCEPT !.process_table[pid].state = "BLOCKED",
                               !.process_table[pid].io_remaining = io_time,
                               !.process_table[pid].blocked_count = @ + 1,
                               !.blocked_list = Append(@, pid)]>>

\* SimulatorEngine.force_block_process(pid, io_time), io_time already drawn
\* when it was None: <<returned bool, state after>>
force_block_process(e, pid, io_time) ==
    IF pid \notin DOMAIN e.process_table \/ pid = 0 THEN <<FALSE, e>>
    ELSE IF e.process_table[pid].state \notin {"READY", "RUNNING"}
    THEN <<FALSE, e>>
    ELSE LET e1 == remove_from_ready(ReleaseCpu(e, pid), pid)
         IN <<TRUE, log_event(
                       [e1 EXCEPT !.process_table[pid].state = "BLOCKED",
                                  !.process_table[pid].io_remaining = io_time,
                                  !.process_table[pid].blocked_count = @ + 1,
                                  !.blocked_list = Append(@, pid)],
                       "forced BLOCKED", pid)>>

\* SimulatorEngine._remove_from_queues(pid)
_remove_from_queues(e, pid) ==
    LET e1 == remove_from_ready(e, pid)
    IN [e1 EXCEPT !.blocked_list = ListRemove(@, pid),
                  !.zombie_list = ListRemove(@, pid)]

\* "Verificar si debe ser zombie": the termination decision written out in
\* force_terminate_process and again in _execute_current_process
\* the decision with every parent taken to be waiting for its children
TerminationDecision_parent_waiting(e, pid) ==
    LET parent_pid == e.process_table[pid].parent_pid
    IN IF Truthy(parent_pid) /\ parent_pid \in DOMAIN e.process_table
       THEN log_event(
               [e EXCEPT !.process_table[pid].state = "TERMINATED",
                         !.process_table[pid].reaped = TRUE],
               "-> TERMINATED", pid)
       ELSE log_event([e EXCEPT !.process_table[pid].state = "TERMINATED"],
                      "-> TERMINATED", pid)

TerminationDecision(e, pid) ==
    LET parent_pid == e.process_table[pid].parent_pid
    IN IF Truthy(parent_pid) /\ parent_pid \in DOMAIN e.process_table
       THEN IF ~e.process_table[parent_pid].waiting_for_child
            THEN log_event(
                    [e EXCEPT !.process_table[pid].state = "ZOMBIE",
                              !.zombie_list = Append(@, pid)],
                    "-> ZOMBIE", pid)
            ELSE log_event(
                    [e EXCEPT !.process_table[pid].state = "TERMINATED",
                              !.process_table[pid].reaped = TRUE],
                    "-> TERMINATED", pid)
       ELSE log_event([e EXCEPT !.process_table[pid].state = "TERMINATED"],
                      "-> TERMINATED", pid)

\* terminates without taking the pid out of the queues and lists
force_terminate_process_keeps_queues(e, pid) ==
    IF pid \notin DOMAIN e.process_table \/ pid = 0 THEN <<FALSE, e>>
    ELSE IF e.process_table[pid].state = "TERMINATED" THEN <<FALSE, e>>
    ELSE LET e1 == ReleaseCpu(e, pid)
             e2 == [e1 EXCEPT !.process_table[pid].remaining_burst = 0,
                              !.process_table[pid].end_tick = e.tick]
         IN <<TRUE, TerminationDecision(e2, pid)>>

\* terminates a TERMINATED process once more
force_terminate_process_again(e, pid) ==
    IF pid \notin DOMAIN e.process_table \/ pid = 0 THEN <<FALSE, e>>
    ELSE LET e1 == _remove_from_queues(ReleaseCpu(e, pid), pid)
             e2 == [e1 EXCEPT !.process_table[pid].remaining_burst = 0,
                              !.process_table[pid].end_tick = e.tick]
         IN <<TRUE, TerminationDecision(e2, pid)>>

\* terminates pid 0 like any other process
force_terminate_process_init_too(e, pid) ==
    IF pid \notin DOMAIN e.process_table THEN <<FALSE, e>>
    ELSE IF e.process_table[pid].state = "TERMINATED" THEN <<FALSE, e>>
    ELSE LET e1 == _remove_from_queues(ReleaseCpu(e, pid), pid)
             e2 == [e1 EXCEPT !.process_table[pid].remaining_burst = 0,
                              !.process_table[pid].end_tick = e.tick]
         IN <<TRUE, TerminationDecision(e2, pid)>>

\* SimulatorEngine.force_terminate_process(pid): <<returned bool, state after>>
force_terminate_process(e, pid) ==
    IF pid \notin DOMAIN e.process_table \/ pid = 0 THEN <<FALSE, e>>
    ELSE IF e.process_table[pid].state = "TERMINATED" THEN <<FALSE, e>>
    ELSE LET e1 == _remove_from_queues(ReleaseCpu(e, pid), pid)
             e2 == [e1 EXCEPT !.process_table[pid].remaining_burst = 0,
                              !.process_table[pid].end_tick = e.tick]
         IN <<TRUE, TerminationDecision(e2, pid)>>

\* SimulatorEngine.wait_for_child(parent_pid): <<reaped_children, state after>>
RECURSIVE ReapChildren(_, _, _)
ReapChildren(e, children, reaped_children) ==
    IF children = <<>> THEN <<reaped_children, e>>
    ELSE LET child_pid == Head(children)
         IN IF /\ child_pid \in DOMAIN e.process_table
               /\ e.process_table[child_pid].state = "ZOMBIE"
            THEN ReapChildren(
                    log_event(
                       [e EXCEPT
                           !.process_table[child_pid].state = "TERMINATED",
                           !.process_table[child_pid].reaped = TRUE,
                           !.zombie_list = ListRemove(@, child_pid)],
                       "reaped", child_pid),
                    Tail(children), Append(reaped_children, child_pid))
            ELSE ReapChildren(e, Tail(children), reaped_children)

\* reaps every zombie of the zombie list, whoever its parent is
wait_for_child_any_parent(e, parent_pid) ==
    IF parent_pid \notin DOMAIN e.process_table THEN <<(<<>>), e>>
    ELSE ReapChildren(e, e.zombie_list, <<>>)

\* reaps the zombie children and leaves the zombie list as it was
wait_for_child_keeps_zombie_list(e, parent_pid) ==
    IF parent_pid \notin DOMAIN e.process_table THEN <<(<<>>), e>>
    ELSE LET r == ReapChildren(e, e.process_table[parent_pid].children, <<>>)
         IN <<r[1], [r[2] EXCEPT !.zombie_list = e.zombie_list]>>

wait_for_child(e, parent_pid) ==
    IF parent_pid \notin DOMAIN e.process_table THEN <<(<<>>), e>>
    ELSE ReapChildren(e, e.process_table[parent_pid].children, <<>>)

\* SimulatorEngine._handle_blocked_processes()
RECURSIVE AdvanceBlocked(_, _, _)
AdvanceBlocked(e, pids, unblocked) ==
    IF pids = <<>> THEN <<unblocked, e>>
    ELSE LET pid == Head(pids)
         IN IF pid \notin DOMAIN e.process_table
            THEN AdvanceBlocked(e, Tail(pids), unblocked)
            ELSE LET io == e.process_table[pid].io_remaining
                     io1 == IF io > 0 THEN io - 1 ELSE io
                     e1 == [e EXCEPT !.process_table[pid].io_remaining = io1]
                 IN IF io1 = 0
                    THEN AdvanceBlocked(
                            log_event(
                               add_to_ready(
                                  [e1 EXCEPT
                                      !.process_table[pid].state = "READY"],
                                  pid),
                               "unblocked", pid),
                            Tail(pids), Append(unblocked, pid))
                    ELSE AdvanceBlocked(e1, Tail(pids), unblocked)

RECURSIVE RemoveAll(_, _)
RemoveAll(s, xs) ==
    IF xs = <<>> THEN s ELSE RemoveAll(ListRemove(s, Head(xs)), Tail(xs))

\* unblocks one tick late: a process leaves BLOCKED in the tick after the
\* one that brought its io_remaining to 0
RECURSIVE AdvanceBlockedLate(_, _, _)
AdvanceBlockedLate(e, pids, unblocked) ==
    IF pids = <<>> THEN <<unblocked, e>>
    ELSE LET pid == Head(pids)
             io == e.process_table[pid].io_remaining
         IN IF io = 0
            THEN AdvanceBlockedLate(
                    log_event(
                       add_to_ready(
                          [e EXCEPT !.process_table[pid].state = "READY"],
                          pid),
                       "unblocked", pid),
                    Tail(pids), Append(unblocked, pid))
            ELSE AdvanceBlockedLate(
                    [e EXCEPT !.process_table[pid].io_remaining = io - 1],
                    Tail(pids), unblocked)

_handle_blocked_processes_late(e) ==
    LET r == AdvanceBlockedLate(e, e.blocked_list, <<>>)
    IN [r[2] EXCEPT !.blocked_list = RemoveAll(@, r[1])]

_handle_blocked_processes(e) ==
    LET r == AdvanceBlocked(e, e.blocked_list, <<>>)
    IN [r[2] EXCEPT !.blocked_list = RemoveAll(@, r[1])]

\* SimulatorEngine._execute_current_process(): the set of outcomes
_execute_current_process(e) ==
    LET pid == e.current_running_pid
    IN IF pid \notin DOMAIN e.process_table
       THEN {[e EXCEPT !.current_running_pid = None]}
       ELSE UNION {
         LET e2 == [e1 EXCEPT !.process_table[pid].remaining_burst = @ - 1]
         IN IF e2.process_table[pid].remaining_burst <= 0
            THEN {TerminationDecision(
                     [e2 EXCEPT !.process_table[pid].end_tick = e.tick,
                                !.current_running_pid = None,
                                !.current_quantum_used = 0],
                     pid)}
            ELSE UNION {
               IF d < e.p_block
               THEN {log_event(
                        [e2 EXCEPT !.process_table[pid].state = "BLOCKED",
                                   !.process_table[pid].io_remaining = io_time,
                                   !.process_table[pid].blocked_count = @ + 1,
                                   !.blocked_list = Append(@, pid),
                                   !.current_running_pid = None,
                                   !.current_quantum_used = 0],
                        "blocked", pid) :
                        io_time \in BlockIoDraws}
               ELSE LET e3 == preempt_current(e2)
                    IN {IF e3.current_running_pid # pid
                        THEN log_event(e3, "preempted", pid)
                        ELSE e3} : d \in RandomDraws}
         : e1 \in scheduler_tick([e EXCEPT !.cpu_busy_ticks = @ + 1])}

\* a dispatch that costs the tick: the dispatched process executes from the
\* next tick on
_schedule_processes_dispatch_only(e) ==
    IF e.current_running_pid # None THEN _execute_current_process(e)
    ELSE LET r == get_next_process(e)
             next_pid == r[1]
         IN IF Truthy(next_pid) /\ next_pid \in DOMAIN e.process_table
            THEN LET e0 == set_running(r[2], next_pid)
                 IN {IF e0.process_table[next_pid].start_tick = None
                     THEN [e0 EXCEPT !.process_table[next_pid].start_tick =
                                         e.tick]
                     ELSE e0}
            ELSE {[r[2] EXCEPT !.idle_ticks = @ + 1]}

\* records an idle unit whenever the slot was empty when the step began
_schedule_processes_idle_on_dispatch(e) ==
    LET e1 == IF e.current_running_pid = None
              THEN LET r == get_next_process(e)
                       next_pid == r[1]
                   IN IF Truthy(next_pid) /\ next_pid \in DOMAIN e.process_table
                      THEN LET e0 == set_running(r[2], next_pid)
                           IN log_event(
                                 IF e0.process_table[next_pid].start_tick = None
                                 THEN [e0 EXCEPT
                                         !.process_table[next_pid].start_tick =
                                             e.tick,
                                         !.idle_ticks = @ + 1]
                                 ELSE [e0 EXCEPT !.idle_ticks = @ + 1],
                                 "running", next_pid)
                      ELSE r[2]
              ELSE e
    IN IF e1.current_running_pid # None
       THEN _execute_current_process(e1)
       ELSE {[e1 EXCEPT !.idle_ticks = @ + 1]}

\* SimulatorEngine._schedule_processes(): the set of outcomes
_schedule_processes(e) ==
    LET e1 == IF e.current_running_pid = None
              THEN LET r == get_next_process(e)
                       next_pid == r[1]
                   IN IF Truthy(next_pid) /\ next_pid \in DOMAIN e.process_table
                      THEN LET e0 == set_running(r[2], next_pid)
                           IN log_event(
                                 IF e0.process_table[next_pid].start_tick = None
                                 THEN [e0 EXCEPT
                                         !.process_table[next_pid].start_tick =
                                             e.tick]
                                 ELSE e0,
                                 "running", next_pid)
                      ELSE r[2]
              ELSE e
    IN IF e1.current_running_pid # None
       THEN _execute_current_process(e1)
       ELSE {[e1 EXCEPT !.idle_ticks = @ + 1]}

\* SimulatorEngine._auto_reap_zombies()
RECURSIVE ReapOld(_, _)
ReapOld(e, pids) ==
    IF pids = <<>> THEN e
    ELSE LET pid == Head(pids)
         IN IF pid \notin DOMAIN e.process_table THEN ReapOld(e, Tail(pids))
            ELSE LET end == e.process_table[pid].end_tick
                     zombie_age == e.tick - (IF Truthy(end) THEN end ELSE 0)
                 IN IF zombie_age >= e.auto_reap_after
                    THEN ReapOld(
                            log_event(
                               [e EXCEPT
                                   !.process_table[pid].state = "TERMINATED",
                                   !.process_table[pid].reaped = TRUE,
                                   !.zombie_list = ListRemove(@, pid)],
                               "auto-reaped", pid),
                            Tail(pids))
                    ELSE ReapOld(e, Tail(pids))

\* reaps one tick late: zombie_age > auto_reap_after
_auto_reap_zombies_late(e) ==
    ReapOld([e EXCEPT !.auto_reap_after = @ + 1], e.zombie_list)

_auto_reap_zombies(e) == ReapOld(e, e.zombie_list)

\* admits the NEW processes before it unblocks
tick_simulation_new_first(e) ==
    LET e1 == [e EXCEPT !.tick = @ + 1]
        e2 == move_new_to_ready(e1)[2]
        e3 == _handle_blocked_processes(e2)
    IN {IF e4.auto_reap_after > 0 THEN _auto_reap_zombies(e4) ELSE e4 :
           e4 \in _schedule_processes(e3)}

\* SimulatorEngine.tick_simulation(): the set of outcomes
tick_simulation(e) ==
    LET e1 == [e EXCEPT !.tick = @ + 1]
        e2 == _handle_blocked_processes(e1)
        e3 == move_new_to_ready(e2)[2]
    IN {IF e4.auto_reap_after > 0 THEN _auto_reap_zombies(e4) ELSE e4 :
           e4 \in _schedule_processes(e3)}

\* ------------------------------------------------- the draws of an operation
\* The operations that call the random module, once more, each outcome with
\* the values the generator returned to it, in the order of the calls.
Drawn(draws, e) == [draws |-> draws, e |-> e]

\* create_process with burst and priority left to their defaults (None):
\* random.randint(5, 15), then random.randint(0, 8)
create_process_drawn(e, burst, parent_pid, priority) ==
    {Drawn((IF burst = None THEN <<b>> ELSE <<>>)
              \o (IF priority = None THEN <<pr>> ELSE <<>>),
           create_process(e, b, parent_pid, pr)[2]) :
        b \in (IF burst = None THEN DefaultBurstDraws ELSE {burst}),
        pr \in (IF priority = None THEN DefaultPriorityDraws ELSE {priority})}

\* one level of _priority_aging: a random.random() per known pid popped
AgeLevelDrawn(x, priority) ==
    LET queue == SelectSeq(x.e.priority_queues[priority],
                           LAMBDA pid : pid \in DOMAIN x.e.process_table)
    IN {Drawn(x.draws \o [i \in 1..Len(queue) |-> draw[queue[i]]],
              AgeLevel(x.e, priority,
                       {pid \in Range(queue) : draw[pid] < AgingChance})) :
           draw \in [Range(queue) -> RandomDraws]}

RECURSIVE AgeFromDrawn(_, _)
AgeFromDrawn(xs, priority) ==
    IF priority < 1 THEN xs
    ELSE AgeFromDrawn(UNION {AgeLevelDrawn(x, priority) : x \in xs},
                      priority - 1)

_priority_aging_drawn(e) ==
    IF DOMAIN e.process_table = {} THEN {Drawn(<<>>, e)}
    ELSE AgeFromDrawn({Drawn(<<>>, e)}, max_priority_levels - 1)

scheduler_tick_drawn(e) ==
    LET e1 == IF e.current_running_pid # None
              THEN [e EXCEPT !.current_quantum_used = @ + 1]
              ELSE e
        e2 == [e1 EXCEPT !.priority_boost_counter = @ + 1]
    IN IF e2.priority_boost_counter >= priority_boost_interval
       THEN {Drawn(a.draws, [a.e EXCEPT !.priority_boost_counter = 0]) :
                a \in _priority_aging_drawn(e2)}
       ELSE {Drawn(<<>>, e2)}

\* what follows scheduler.tick in _execute_current_process, for one outcome
\* x of scheduler.tick: random.random() decides the block, random.randint(2, 5)
\* its duration
ExecuteDrawn(e, pid, x, record) ==
    LET e2 == [x.e EXCEPT !.process_table[pid].remaining_burst = @ - 1]
    IN IF e2.process_table[pid].remaining_burst <= 0
       THEN {Drawn(x.draws,
                   TerminationDecision(
                      [e2 EXCEPT !.process_table[pid].end_tick = e.tick,
                                 !.current_running_pid = None,
                                 !.current_quantum_used = 0],
                      pid))}
       ELSE UNION {
          IF d < e.p_block
          THEN {Drawn(x.draws \o (IF record THEN <<d, io_time>> ELSE <<>>),
                      log_event(
                         [e2 EXCEPT
                             !.process_table[pid].state = "BLOCKED",
                             !.process_table[pid].io_remaining = io_time,
                             !.process_table[pid].blocked_count = @ + 1,
                             !.blocked_list = Append(@, pid),
                             !.current_running_pid = None,
                             !.current_quantum_used = 0],
                         "blocked", pid)) :
                   io_time \in BlockIoDraws}
          ELSE LET e3 == preempt_current(e2)
               IN {Drawn(x.draws \o (IF record THEN <<d>> ELSE <<>>),
                         IF e3.current_running_pid # pid
                         THEN log_event(e3, "preempted", pid)
                         ELSE e3)} : d \in RandomDraws}

\* the block is decided by a generator of its own, whose values are not
\* among the draws of the operation
_execute_current_process_own_generator(e) ==
    LET pid == e.current_running_pid
    IN IF pid \notin DOMAIN e.process_table
       THEN {Drawn(<<>>, [e EXCEPT !.current_running_pid = None])}
       ELSE UNION {ExecuteDrawn(e, pid, x, FALSE) :
                      x \in scheduler_tick_drawn(
                               [e EXCEPT !.cpu_busy_ticks = @ + 1])}

_execute_current_process_drawn(e) ==
    LET pid == e.current_running_pid
    IN IF pid \notin DOMAIN e.process_table
       THEN {Drawn(<<>>, [e EXCEPT !.current_running_pid = None])}
       ELSE UNION {ExecuteDrawn(e, pid, x, TRUE) :
                      x \in scheduler_tick_drawn(
                               [e EXCEPT !.cpu_busy_ticks = @ + 1])}

_schedule_processes_drawn(e) ==
    LET e1 == IF e.current_running_pid = None
              THEN LET r == get_next_process(e)
                       next_pid == r[1]
                   IN IF Truthy(next_pid) /\ next_pid \in DOMAIN e.process_table
                      THEN LET e0 == set_running(r[2], next_pid)
                           IN log_event(
                                 IF e0.process_table[next_pid].start_tick = None
                                 THEN [e0 EXCEPT
                                         !.process_table[next_pid].start_tick =
                                             e.tick]
                                 ELSE e0,
                                 "running", next_pid)
                      ELSE r[2]
              ELSE e
    IN IF e1.current_running_pid # None
       THEN _execute_current_process_drawn(e1)
       ELSE {Drawn(<<>>, [e1 EXCEPT !.idle_ticks = @ + 1])}

tick_simulation_drawn(e) ==
    LET e1 == [e EXCEPT !.tick = @ + 1]
        e2 == _handle_blocked_processes(e1)
        e3 == move_new_to_ready(e2)[2]
    IN {Drawn(x.draws,
              IF x.e.auto_reap_after > 0 THEN _auto_reap_zombies(x.e) ELSE x.e) :
           x \in _schedule_processes_drawn(e3)}

reset_keeps_pid_counter(e) ==
    LET e1 == scheduler_reset(e)
    IN [e1 EXCEPT !.tick = 0,
                  !.process_table =
                      (0 :> Process("RUNNING", InitBurst, 0, None, 0)),
                  !.blocked_list = <<>>, !.zombie_list = <<>>,
                  !.cpu_busy_ticks = 0, !.idle_ticks = 0]

\* sum(len(queue) for queue in self.scheduler.priority_queues.values())
RECURSIVE QueuedFrom(_, _)
QueuedFrom(e, l) ==
    IF l > max_priority_levels - 1 THEN 0
    ELSE Len(e.priority_queues[l]) + QueuedFrom(e, l + 1)

\* SimulatorEngine.get_metrics(): the tick and the counts of the snapshot
get_metrics(e) ==
    LET in_state(st) ==
           Cardinality({pid \in DOMAIN e.process_table :
                           e.process_table[pid].state = st})
    IN [tick |-> e.tick,
        total_processes |-> Cardinality(DOMAIN e.process_table),
        running |-> in_state("RUNNING"),
        ready |-> QueuedFrom(e, 0),
        blocked |-> Len(e.blocked_list),
        zombie |-> Len(e.zombie_list),
        terminated |-> in_state("TERMINATED"),
        context_switches |-> e.context_switches]

\* resets the engine and leaves its scheduler as it is
reset_keeps_scheduler(e) ==
    log_event(
       [e EXCEPT !.tick = 0, !.pid_counter = 1,
                 !.process_table =
                     (0 :> Process("RUNNING", InitBurst, 0, None, 0)),
                 !.blocked_list = <<>>, !.zombie_list = <<>>,
                 !.cpu_busy_ticks = 0, !.idle_ticks = 0,
                 !.event_logs = <<>>],
       "created", 0)

\* SimulatorEngine.reset(); the configuration attributes are not touched
reset(e) ==
    LET e1 == scheduler_reset(e)
    IN log_event(
          [e1 EXCEPT !.tick = 0, !.pid_counter = 1,
                     !.process_table =
                         (0 :> Process("RUNNING", InitBurst, 0, None, 0)),
                     !.blocked_list = <<>>, !.zombie_list = <<>>,
                     !.cpu_busy_ticks = 0, !.idle_ticks = 0,
                     !.event_logs = <<>>],
          "created", 0)

\* SimulatorEngine.set_quantum(quantum)
set_quantum(e, q) == [e EXCEPT !.quantum = Max2(1, q)]

\* ============================================================== actions
\* One action per public operation; an argument given as None takes the
\* default the code draws for it.
CreateProcess(burst, parent_pid, priority) ==
    \E b \in (IF burst = None THEN DefaultBurstDraws ELSE {burst}),
       pr \in (IF priority = None THEN DefaultPriorityDraws ELSE {priority}) :
       Install(create_process(Engine, b, parent_pid, pr)[2])

MoveNewToReady == Install(move_new_to_ready(Engine)[2])

ForceBlockProcess(pid, io_time) ==
    \E io \in (IF io_time = None THEN ForceIoDraws ELSE {io_time}) :
       Install(force_block_process(Engine, pid, io)[2])

ForceTerminateProcess(pid) == Install(force_terminate_process(Engine, pid)[2])

WaitForChild(parent_pid) == Install(wait_for_child(Engine, parent_pid)[2])

AdjustPriority(pid, new_priority) ==
    Install(adjust_priority(Engine, pid, new_priority)[2])

SetQuantum(q) == Install(set_quantum(Engine, q))

TickSimulation == \E e \in tick_simulation(Engine) : Install(e)

Reset == Install(reset(Engine))

\* the scheduler called on its own, as its callers and its tests do
AddToReady(pid) == Install(add_to_ready(Engine, pid))

GetNextProcess == Install(get_next_process(Engine)[2])

RemoveFromReady(pid) == Install(remove_from_ready(Engine, pid))

SetRunning(pid) == Install(set_running(Engine, pid))

PreemptCurrent == Install(preempt_current(Engine))

SchedulerTick == \E e \in scheduler_tick(Engine) : Install(e)

\* ------------------------------------------------- the engine, every operation
Bursts == {1, 3}
Priorities == {0, 5}
ParentPids == {0, 1}
Pids == 0..(MaxProcs + 1)
IoTimes == {1}
NewPriorities == {0}
Quanta == {1}

Init == Holds(NewEngine(DefaultPBlock, 2))

Next ==
    \/ /\ pid_counter <= MaxProcs
       /\ \E b \in Bursts, pp \in ParentPids, pr \in Priorities :
             CreateProcess(b, pp, pr)
    \/ MoveNewToReady
    \/ \E pid \in Pids, io \in IoTimes : ForceBlockProcess(pid, io)
    \/ \E pid \in Pids : ForceTerminateProcess(pid)
    \/ \E pid \in Pids : WaitForChild(pid)
    \/ \E pid \in Pids, n \in NewPriorities : AdjustPriority(pid, n)
    \/ \E q \in Quanta : SetQuantum(q)
    \/ tick < MaxTick /\ TickSimulation
    \/ Reset

Spec == Init /\ [][Next]_vars

\* ------------------------------------- parents, children, zombies, reaping
\* create_process with every kind of parent_pid, force_terminate_process,
\* wait_for_child and tick_simulation, without random blocking, under a
\* short auto_reap_after.
FamilyParents == {None, 0, 1, 2}
FamilyBursts == {1}
FamilyAutoReaps == {1, 2}
FamilyPids == 0..FamilySize

InitFamily == \E ar \in FamilyAutoReaps : Holds(NewEngine(0, ar))

NextFamily ==
    \/ /\ pid_counter <= FamilySize
       /\ \E b \in FamilyBursts, pp \in FamilyParents : CreateProcess(b, pp, 5)
    \/ \E pid \in FamilyPids : ForceTerminateProcess(pid)
    \/ \E pid \in FamilyPids : WaitForChild(pid)
    \/ tick < FamilyTicks /\ TickSimulation

SpecFamily == InitFamily /\ [][NextFamily]_vars

\* ------------------------------------------------ quantum and preemption
\* Parentless processes competing for the CPU without random blocking,
\* their priorities adjusted at will: the quantum is chosen before the first
\* tick.
PreemptBursts == {2, 4}
PreemptPriorities == {0, 5}
PreemptQuanta == {1, 2, 3}

InitPreempt == Holds(NewEngine(0, DefaultAutoReap))

NextPreempt ==
    \/ /\ pid_counter <= PreemptProcs
       /\ \E b \in PreemptBursts, pr \in PreemptPriorities :
             CreateProcess(b, None, pr)
    \/ MoveNewToReady
    \/ tick = 0 /\ \E q \in PreemptQuanta : SetQuantum(q)
    \/ \E pid \in 1..PreemptProcs, n \in PreemptPriorities :
          AdjustPriority(pid, n)
    \/ tick < PreemptTicks /\ TickSimulation

SpecPreempt == InitPreempt /\ [][NextPreempt]_vars

\* ------------------------------------------------------ the ready queues
\* Processes of several priorities, one of them beyond the last level, made
\* READY and then enqueued, dequeued and re-prioritised through the
\* scheduler.  Only READY processes are enqueued, as in the engine.
SchedPriorities == {0, 5, 12}
SchedNewPriorities == {0, 5}

InitSched == Holds(NewEngine(0, DefaultAutoReap))

NextSched ==
    \/ /\ pid_counter <= SchedProcs
       /\ \E pr \in SchedPriorities : CreateProcess(None, None, pr)
    \/ MoveNewToReady
    \/ \E pid \in 1..SchedProcs :
          /\ pid \in DOMAIN process_table
          /\ process_table[pid].state = "READY"
          /\ AddToReady(pid)
    \/ GetNextProcess
    \/ \E pid \in 1..SchedProcs, n \in SchedNewPriorities :
          AdjustPriority(pid, n)

SpecSched == InitSched /\ [][NextSched]_vars

\* ------------------------------------------- the scheduler's operations
\* A process table the engine has filled with NEW processes, and the
\* operations of PriorityScheduler called on it directly, in any order and
\* on any pid, the engine's tick being left out.  remove_from_ready stops
\* at the first queue that holds the pid, so it is called only while the
\* pid is in at most one queue.
OpsPriorities == {0, 5}
OpsPids == 1..OpsProcs

InOneQueueAtMost(pid) ==
    Cardinality({l \in Levels : pid \in Range(priority_queues[l])}) <= 1

InitOps == Holds(NewEngine(0, DefaultAutoReap))

NextOps ==
    \/ /\ pid_counter <= OpsProcs
       /\ context_switches = 0 /\ priority_boost_counter = 0
       /\ priority_queues = EmptyQueues
       /\ \E pr \in OpsPriorities : CreateProcess(None, None, pr)
    \/ \E pid \in OpsPids : AddToReady(pid)
    \/ \E pid \in OpsPids : InOneQueueAtMost(pid) /\ RemoveFromReady(pid)
    \/ GetNextProcess
    \/ \E pid \in OpsPids :
          context_switches < OpsSwitches /\ SetRunning(pid)
    \/ PreemptCurrent
    \/ priority_boost_counter < OpsTicks /\ SchedulerTick
    \/ \E pid \in OpsPids, n \in OpsPriorities :
          InOneQueueAtMost(pid) /\ AdjustPriority(pid, n)

SpecOps == InitOps /\ [][NextOps]_vars

\* ------------------------------------------------------- a lone process
\* A fresh engine without random blocking, a quantum chosen before the first
\* tick, one parentless process created at tick 0, moved to READY, and ticks
\* until its burst is used up.
LoneBursts == 1..LoneMaxBurst
LoneQuanta == 1..LoneMaxQuantum
LonePriorities == {0, 5}

InitLone == Holds(NewEngine(0, DefaultAutoReap))

NextLone ==
    \/ tick = 0 /\ \E q \in LoneQuanta : SetQuantum(q)
    \/ /\ pid_counter = 1
       /\ \E b \in LoneBursts, pr \in LonePriorities : CreateProcess(b, None, pr)
    \/ pid_counter = 2 /\ tick = 0 /\ MoveNewToReady
    \/ /\ pid_counter = 2
       /\ process_table[1].state # "NEW"
       /\ tick < process_table[1].total_burst
       /\ TickSimulation

SpecLone == InitLone /\ [][NextLone]_vars

\* --------------------------------------------------- arguments at the edge
\* create_process and adjust_priority called with a burst of 0 and with
\* priorities below 0 and above the last level, without random blocking.
EdgeBursts == {0, 1, 2}
EdgePriorities == {0 - 2, 5, 12}
EdgeNewPriorities == {0 - 3, 11}

InitEdge == Holds(NewEngine(0, DefaultAutoReap))

NextEdge ==
    \/ /\ pid_counter <= EdgeProcs
       /\ \E b \in EdgeBursts, pr \in EdgePriorities : CreateProcess(b, None, pr)
    \/ MoveNewToReady
    \/ \E pid \in 1..EdgeProcs, n \in EdgeNewPriorities : AdjustPriority(pid, n)
    \/ \E pid \in 1..EdgeProcs : ForceTerminateProcess(pid)
    \/ tick < EdgeTicks /\ TickSimulation

SpecEdge == InitEdge /\ [][NextEdge]_vars

\* ------------------------------------------------------ blocked processes
\* Processes blocked at random (for 2 ticks) or by force_block_process (for
\* 1 or 2 ticks), re-prioritised while they wait, and unblocked by the ticks.
BlockBursts == {4}
BlockPriorities == {0, 5}
BlockIoTimes == {1, 2}

InitBlock == Holds(NewEngine(DefaultPBlock, DefaultAutoReap))

NextBlock ==
    \/ /\ pid_counter <= BlockProcs
       /\ \E b \in BlockBursts, pr \in BlockPriorities :
             CreateProcess(b, None, pr)
    \/ \E pid \in 1..BlockProcs, io \in BlockIoTimes :
          ForceBlockProcess(pid, io)
    \/ \E pid \in 1..BlockProcs, n \in BlockPriorities : AdjustPriority(pid, n)
    \/ tick < BlockTicks /\ TickSimulation

SpecBlock == InitBlock /\ [][NextBlock]_vars

\* --------------------------------------------------------- the io waits
\* READY and RUNNING processes blocked with an io_time that is negative,
\* zero, positive or left to the generator, or blocked at random while they
\* run, some of them force-terminated, and the ticks that count the wait down.
UnblockBursts == {3}
UnblockIoTimes == {0 - 2, 0, 1, None}

InitUnblock == Holds(NewEngine(DefaultPBlock, DefaultAutoReap))

NextUnblock ==
    \/ /\ pid_counter <= UnblockProcs
       /\ \E b \in UnblockBursts : CreateProcess(b, None, 0)
    \/ MoveNewToReady
    \/ \E pid \in 1..UnblockProcs, io \in UnblockIoTimes :
          ForceBlockProcess(pid, io)
    \/ \E pid \in 1..UnblockProcs : ForceTerminateProcess(pid)
    \/ tick < UnblockTicks /\ TickSimulation

SpecUnblock == InitUnblock /\ [][NextUnblock]_vars

\* ------------------------------------------------------------------ aging
\* Long processes created before the first tick on a fresh engine without
\* random blocking: the scheduler's tick runs once per executed unit, so the
\* first aging pass falls in tick priority_boost_interval.
AgingBursts == {25}
AgingPriorities == {0, 3}

InitAging == Holds(NewEngine(0, DefaultAutoReap))

NextAging ==
    \/ /\ tick = 0
       /\ pid_counter <= AgingProcs
       /\ \E b \in AgingBursts, pr \in AgingPriorities :
             CreateProcess(b, None, pr)
    \/ tick < AgingTicks /\ TickSimulation

SpecAging == InitAging /\ [][NextAging]_vars

\* ----------------------------------------------------------------- replay
\* The calls of a replayed run: create_process with its defaults or with a
\* long burst, before the first tick, and tick_simulation on a fresh engine
\* with random blocking, up to the first aging pass.
ReplayBursts == {None, 25}

InitReplay == Holds(NewEngine(DefaultPBlock, DefaultAutoReap))

NextReplay ==
    \/ /\ tick = 0
       /\ pid_counter <= ReplayProcs
       /\ \E b \in ReplayBursts : CreateProcess(b, None, None)
    \/ tick < ReplayTicks /\ TickSimulation

SpecReplay == InitReplay /\ [][NextReplay]_vars

\* ------------------------------------------------------ the window's threads
\* MainWindow drives one engine from two threads: the callbacks of the main
\* (Tk) thread call the engine directly, and _start_auto_simulation starts a
\* background thread that runs _auto_simulation_loop.  Neither takes a
\* lock, so the interpreter may switch threads between any two steps; the
\* background thread is followed through the steps of tick_simulation, and
\* a callback from its call into the engine to its return.  A second start
\* while an earlier background thread is still alive is left out here and
\* followed in the specification of the background threads below.

\* MainWindow._create_initial_processes() on each engine of es
RECURSIVE _create_initial_processes(_, _)
_create_initial_processes(es, n) ==
    IF n = 0 THEN es
    ELSE _create_initial_processes(
            UNION {{x.e : x \in create_process_drawn(e, None, None, None)} :
                      e \in es},
            n - 1)

\* the positions of the background thread inside tick_simulation
InsideTick == {"_handle_blocked_processes", "move_new_to_ready",
               "_schedule_processes", "_auto_reap_zombies"}

\* the engine calls of the callbacks followed here
DriverTargets == {1}
GuiCalls == {<<"create_process">>, <<"reset">>}
               \cup {<<"force_terminate_process", pid>> : pid \in DriverTargets}

\* MainWindow._start_auto_simulation()
_start_auto_simulation ==
    /\ gui_thread = <<"idle">>
    /\ ~is_running
    /\ auto_thread \in {"none", "dead"}
    /\ is_running' = TRUE
    /\ auto_thread' = "while"
    /\ UNCHANGED <<gui_thread, earlier_threads>>
    /\ InstallEngine(Engine)

\* MainWindow._pause_simulation()
_pause_simulation ==
    /\ gui_thread = <<"idle">>
    /\ is_running
    /\ is_running' = FALSE
    /\ UNCHANGED <<auto_thread, gui_thread, earlier_threads>>
    /\ InstallEngine(Engine)

\* one step of the background thread in _auto_simulation_loop
AutoStep(e, next) ==
    /\ InstallEngine(e)
    /\ auto_thread' = next
    /\ UNCHANGED <<is_running, gui_thread, earlier_threads>>

_auto_simulation_loop ==
    \/ /\ auto_thread = "while" /\ ~is_running
       /\ AutoStep(Engine, "dead")
    \/ /\ auto_thread = "while" /\ is_running /\ tick < DriverTicks
       /\ AutoStep([Engine EXCEPT !.tick = @ + 1], "_handle_blocked_processes")
    \/ /\ auto_thread = "_handle_blocked_processes"
       /\ AutoStep(_handle_blocked_processes(Engine), "move_new_to_ready")
    \/ /\ auto_thread = "move_new_to_ready"
       /\ AutoStep(move_new_to_ready(Engine)[2], "_schedule_processes")
    \/ /\ auto_thread = "_schedule_processes"
       /\ \E e \in _schedule_processes(Engine) :
             AutoStep(e, "_auto_reap_zombies")
    \/ /\ auto_thread = "_auto_reap_zombies"
       /\ AutoStep(IF auto_reap_after > 0 THEN _auto_reap_zombies(Engine)
                   ELSE Engine,
                   "create_process")
    \/ /\ auto_thread = "create_process"
       /\ \/ AutoStep(Engine, "sleep")
          \/ /\ pid_counter <= DriverProcs
             /\ \E x \in create_process_drawn(Engine, None, None, None) :
                   AutoStep(x.e, "sleep")
    \/ /\ auto_thread = "sleep"
       /\ AutoStep(Engine, "while")

\* a callback of the main thread calls into the engine; _reset_simulation
\* clears is_running first and does not wait for the loop to end
GuiCall(call) ==
    /\ gui_thread = <<"idle">>
    /\ call = <<"create_process">> => pid_counter <= DriverProcs
    /\ gui_thread' = call
    /\ is_running' = IF call = <<"reset">> THEN FALSE ELSE is_running
    /\ UNCHANGED <<auto_thread, earlier_threads>>
    /\ InstallEngine(Engine)

\* the call returns: its effect on the engine
GuiReturn ==
    /\ gui_thread # <<"idle">>
    /\ gui_thread' = <<"idle">>
    /\ UNCHANGED <<is_running, auto_thread, earlier_threads>>
    /\ \E e \in (CASE gui_thread[1] = "create_process" ->
                       {x.e : x \in create_process_drawn(Engine, None,
                                                         None, None)}
                   [] gui_thread[1] = "force_terminate_process" ->
                       {force_terminate_process(Engine, gui_thread[2])[2]}
                   [] gui_thread[1] = "reset" ->
                       _create_initial_processes({reset(Engine)},
                                                 InitialProcesses)) :
          InstallEngine(e)

InitDriver ==
    \E e \in _create_initial_processes(
                {NewEngine(DefaultPBlock, DefaultAutoReap)}, InitialProcesses) :
       Holds(e)

NextDriver ==
    \/ _start_auto_simulation
    \/ _pause_simulation
    \/ _auto_simulation_loop
    \/ \E call \in GuiCalls : GuiCall(call)
    \/ GuiReturn

SpecDriver == InitDriver /\ [][NextDriver]_vars

\* ------------------------------------------------- the background threads
\* Start Auto, Pause and Reset pressed in any order while the background
\* threads run their loops.  _start_auto_simulation tests only is_running,
\* so a thread that was started earlier and has not yet read the flag stays
\* alive beside the new one; self.auto_thread then names the new one.  Each
\* thread is followed from one statement of its loop to the next, with
\* tick_simulation as one step; auto_create_enabled keeps its initial False.

\* the statement a loop at position is about to run: the position after it
\* and the engine after it
LoopSteps(position) ==
    CASE position = "while" ->
            {<<IF is_running THEN "tick_simulation" ELSE "dead", Engine>>}
      [] position = "tick_simulation" ->
            {<<"sleep", e>> : e \in tick_simulation(Engine)}
      [] position = "sleep" -> {<<"while", Engine>>}

Alive(position) == position \notin {"none", "dead"}

LiveThreads == Len(earlier_threads) + (IF Alive(auto_thread) THEN 1 ELSE 0)

\* MainWindow._start_auto_simulation() with earlier threads still alive
StartAuto ==
    /\ gui_thread = <<"idle">>
    /\ ~is_running
    /\ LiveThreads < MaxThreads
    /\ is_running' = TRUE
    /\ earlier_threads' = IF Alive(auto_thread)
                          THEN Append(earlier_threads, auto_thread)
                          ELSE earlier_threads
    /\ auto_thread' = "while"
    /\ UNCHANGED gui_thread
    /\ InstallEngine(Engine)

\* one statement of the loop of the thread in self.auto_thread
CurrentThreadStep ==
    /\ Alive(auto_thread)
    /\ auto_thread = "tick_simulation" => tick < ThreadTicks
    /\ \E s \in LoopSteps(auto_thread) :
          /\ auto_thread' = s[1]
          /\ InstallEngine(s[2])
    /\ UNCHANGED <<is_running, gui_thread, earlier_threads>>

\* one statement of the loop of a thread started earlier
EarlierThreadStep ==
    \E i \in 1..Len(earlier_threads) :
        /\ earlier_threads[i] = "tick_simulation" => tick < ThreadTicks
        /\ \E s \in LoopSteps(earlier_threads[i]) :
              /\ earlier_threads' =
                    IF s[1] = "dead"
                    THEN SubSeq(earlier_threads, 1, i - 1)
                            \o SubSeq(earlier_threads, i + 1,
                                      Len(earlier_threads))
                    ELSE [earlier_threads EXCEPT ![i] = s[1]]
              /\ InstallEngine(s[2])
        /\ UNCHANGED <<is_running, auto_thread, gui_thread>>

\* MainWindow._reset_simulation() up to its join: is_running is cleared
ResetCall ==
    /\ gui_thread = <<"idle">>
    /\ gui_thread' = <<"join">>
    /\ is_running' = FALSE
    /\ UNCHANGED <<auto_thread, earlier_threads>>
    /\ InstallEngine(Engine)

\* join(timeout=1.0) returns, the thread having ended or the second being
\* over while the thread sleeps (time.sleep(1.0 / speed) lasts longer than
\* the timeout for every speed below 1); then the engine is reset and the
\* initial processes are created
ResetReturn ==
    /\ gui_thread = <<"join">>
    /\ auto_thread \in {"none", "dead", "sleep"}
    /\ gui_thread' = <<"idle">>
    /\ UNCHANGED <<is_running, auto_thread, earlier_threads>>
    /\ \E e \in _create_initial_processes({reset(Engine)}, InitialProcesses) :
          InstallEngine(e)

InitThreads == InitDriver

NextThreads ==
    \/ StartAuto
    \/ _pause_simulation
    \/ CurrentThreadStep
    \/ EarlierThreadStep
    \/ ResetCall
    \/ ResetReturn

SpecThreads == InitThreads /\ [][NextThreads]_vars

\* ================================================================ claims
Table == DOMAIN process_table

UserPids == Table \ {0}

Occurrences(s, x) == Cardinality({i \in 1..Len(s) : s[i] = x})

QueueOccurrences(pid) ==
    Cardinality({lv \in Levels \X (1..MaxProcs + 2) :
                    /\ lv[2] <= Len(priority_queues[lv[1]])
                    /\ priority_queues[lv[1]][lv[2]] = pid})

\* how many times pid appears in the scheduling structures
Placements(pid) ==
    QueueOccurrences(pid) + Occurrences(blocked_list, pid)
        + Occurrences(zombie_list, pid)
        + (IF current_running_pid = pid THEN 1 ELSE 0)

TickStep == tick' = tick + 1

\* pid executed one burst unit in this step (only a tick lowers a remaining
\* burst by one and leaves it positive)
ExecutedOn(pid) ==
    /\ TickStep
    /\ pid \in Table
    /\ pid \in DOMAIN process_table'
    /\ process_table'[pid].remaining_burst =
           process_table[pid].remaining_burst - 1

\* some queue of a level above pid's priority (a smaller number) is non-empty
HigherPriorityWaiting(pid) ==
    \E l \in Levels :
        l < process_table[pid].priority /\ priority_queues[l] # <<>>

\* C1: after every tick_simulation, whatever operations preceded it, every
\* process other than pid 0 that is not TERMINATED is in exactly one of the
\* ready queues, the blocked list, the zombie list and the running slot, once.
C1_ExclusiveAfterTick ==
    [][TickStep =>
          (\A pid \in UserPids :
              process_table[pid].state # "TERMINATED" => Placements(pid) = 1)'
      ]_vars

C1_Witness ==
    /\ tick >= 1
    /\ \E a, b \in UserPids :
          /\ a # b
          /\ current_running_pid = a
          /\ process_table[a].blocked_count = 1
          /\ process_table[b].state = "ZOMBIE"
          /\ Placements(a) = 1 /\ Placements(b) = 1

\* the termination decision is applied to pid in this step: it leaves the
\* live states for ZOMBIE or TERMINATED
Dies(pid) ==
    /\ pid \in Table /\ pid \in DOMAIN process_table'
    /\ process_table[pid].state \notin {"ZOMBIE", "TERMINATED"}
    /\ process_table'[pid].state \in {"ZOMBIE", "TERMINATED"}

\* C2: the termination decision, natural or forced: no parent_pid or a
\* parent_pid that is no key of the table gives TERMINATED; a parent in the
\* table (pid 0 included) that is not waiting gives ZOMBIE, in the zombie
\* list; a waiting parent gives TERMINATED with reaped = true.
C2_TerminationDecision ==
    [][\A pid \in UserPids :
          Dies(pid) =>
             LET parent_pid == process_table[pid].parent_pid
                 after == process_table'[pid]
             IN IF parent_pid = None \/ parent_pid \notin Table
                THEN after.state = "TERMINATED"
                ELSE IF ~process_table[parent_pid].waiting_for_child
                THEN /\ after.state = "ZOMBIE"
                     /\ Occurrences(zombie_list', pid) = 1
                ELSE after.state = "TERMINATED" /\ after.reaped
      ]_vars

IsZombie(pid) == pid \in Table /\ process_table[pid].state = "ZOMBIE"

\* C3: wait_for_child(P), P in the table, returns P's children that are
\* ZOMBIE, in children-list order; each of them becomes TERMINATED with
\* reaped = true and leaves the zombie list; every other process, zombies of
\* other parents included, and every queue stay as they are.  With no ZOMBIE
\* child the result is empty and nothing changes.
C3_WaitReapsZombieChildren ==
    \A P \in Table :
        LET r == wait_for_child(Engine, P)
            zombies == SelectSeq(process_table[P].children, IsZombie)
            reaped == Range(zombies)
        IN /\ r[1] = zombies
           /\ r[2] =
                [Engine EXCEPT
                   !.process_table =
                       [pid \in Table |->
                           IF pid \in reaped
                           THEN [process_table[pid] EXCEPT
                                    !.state = "TERMINATED", !.reaped = TRUE]
                           ELSE process_table[pid]],
                   !.zombie_list =
                       SelectSeq(zombie_list, LAMBDA z : z \notin reaped),
                   !.event_logs =
                       [i \in 1..Len(zombies) |->
                           <<tick, "reaped", zombies[i]>>]]
           /\ (zombies = <<>> => r[1] = <<>> /\ r[2] = Engine)

\* a parent whose two children were reaped before auto-reap could act, next
\* to a zombie of another parent that was left alone
C3_Witness ==
    /\ Table = 0..3
    /\ process_table[1].children = <<2, 3>>
    /\ \A c \in {2, 3} :
          /\ process_table[c].state = "TERMINATED"
          /\ process_table[c].reaped
          /\ tick - process_table[c].end_tick < auto_reap_after
    /\ process_table[1].state = "ZOMBIE"
    /\ process_table[1].parent_pid = 2

\* C4: with auto_reap_after = N > 0, after every tick_simulation no zombie
\* of the zombie list has tick - end_tick >= N; a ZOMBIE with end_tick = t
\* stays ZOMBIE through every tick below t + N and is TERMINATED with
\* reaped = true, out of the zombie list, after tick t + N; between ticks
\* only wait_for_child and force_terminate_process touch it.
C4_AutoReap ==
    [][/\ (TickStep /\ auto_reap_after > 0) =>
             /\ \A z \in Range(zombie_list') :
                   tick' - process_table'[z].end_tick < auto_reap_after
             /\ \A pid \in UserPids :
                   IsZombie(pid) =>
                      IF tick' - process_table[pid].end_tick >= auto_reap_after
                      THEN /\ tick' = process_table[pid].end_tick + auto_reap_after
                           /\ process_table'[pid] =
                                 [process_table[pid] EXCEPT
                                     !.state = "TERMINATED", !.reaped = TRUE]
                           /\ pid \notin Range(zombie_list')
                      ELSE /\ process_table'[pid] = process_table[pid]
                           /\ Occurrences(zombie_list', pid) = 1
       /\ \A pid \in UserPids \cap DOMAIN process_table' :
             (IsZombie(pid) /\ process_table'[pid].state # "ZOMBIE") =>
                /\ process_table'[pid].state = "TERMINATED"
                /\ process_table'[pid].reaped
      ]_vars

\* a zombie of tick 1 reaped by the tick numbered 1 + N, N = 2, and a
\* younger zombie that the same tick left alone
C4_Witness ==
    \E a, b \in UserPids :
        /\ auto_reap_after = 2
        /\ process_table[a].state = "TERMINATED"
        /\ process_table[a].reaped
        /\ process_table[a].end_tick = 1
        /\ tick = 3
        /\ process_table[b].state = "ZOMBIE"
        /\ process_table[b].end_tick = 2

\* C5: once a process has an end_tick, no later operation changes it, a
\* force_terminate_process on a ZOMBIE included.
C5_EndTickWrittenOnce ==
    [][\A pid \in Table \cap DOMAIN process_table' :
          process_table[pid].end_tick # None =>
             process_table'[pid].end_tick = process_table[pid].end_tick
      ]_vars

\* pid is the last entry of the queue of its (clamped) priority
AtTailOfItsQueue(pid) ==
    LET queue == priority_queues[ClampPriority(process_table[pid].priority)]
    IN queue # <<>> /\ queue[Len(queue)] = pid

\* C6: with p_block = 0 and quantum q, a process that keeps executing with
\* no queue above its priority non-empty is RUNNING after each unit but the
\* q-th since its dispatch and, after the q-th, READY at the tail of its
\* queue with preempt_count one higher and the running slot empty; a first
\* dispatch at tick t of a burst above q has then run the q units of ticks
\* t..t+q-1.
C6_QuantumPreemption ==
    [][(TickStep /\ p_block = 0) =>
          \A pid \in UserPids :
             (/\ ExecutedOn(pid)
              /\ process_table'[pid].remaining_burst > 0
              /\ ~HigherPriorityWaiting(pid)')
             =>
             LET before == process_table[pid]
                 after == process_table'[pid]
                 used == IF current_running_pid = pid
                         THEN current_quantum_used + 1 ELSE 1
             IN /\ used <= quantum
                /\ IF used < quantum
                   THEN /\ after.state = "RUNNING"
                        /\ current_running_pid' = pid
                        /\ current_quantum_used' = used
                        /\ after.preempt_count = before.preempt_count
                        /\ QueueOccurrences(pid)' = 0
                   ELSE /\ after.state = "READY"
                        /\ AtTailOfItsQueue(pid)'
                        /\ QueueOccurrences(pid)' = 1
                        /\ after.preempt_count = before.preempt_count + 1
                        /\ current_running_pid' = None
                        /\ current_quantum_used' = 0
                /\ (before.preempt_count = 0 /\ before.total_burst > quantum) =>
                      /\ used = tick' - after.start_tick + 1
                      /\ after.remaining_burst = after.total_burst - used
      ]_vars

\* the spec's case with a shorter burst: quantum 3, a burst of 4 dispatched
\* at tick 2 behind a shorter process of its level, preempted after its third
\* unit at tick 4
C6_Witness ==
    \E a \in UserPids :
        /\ quantum = 3 /\ p_block = 0
        /\ process_table[a].total_burst = 4
        /\ process_table[a].start_tick = 2
        /\ tick = 4
        /\ process_table[a].state = "READY"
        /\ process_table[a].remaining_burst = 1
        /\ process_table[a].preempt_count = 1
        /\ current_running_pid = None
        /\ AtTailOfItsQueue(a)

\* C7: after every tick_simulation no queue of a level above the running
\* process's priority is non-empty; a process that executed a unit in the
\* tick without terminating or blocking is back in READY, preempted, whenever
\* such a queue is non-empty, whatever part of its quantum it has used.
C7_PriorityPreemption ==
    [][TickStep =>
          /\ (current_running_pid # None =>
                 ~HigherPriorityWaiting(current_running_pid))'
          /\ \A pid \in UserPids :
                (/\ ExecutedOn(pid)
                 /\ process_table'[pid].remaining_burst > 0
                 /\ process_table'[pid].state # "BLOCKED"
                 /\ HigherPriorityWaiting(pid)')
                => /\ process_table'[pid].state = "READY"
                   /\ current_running_pid' # pid
                   /\ process_table'[pid].preempt_count =
                          process_table[pid].preempt_count + 1
                   /\ QueueOccurrences(pid)' = 1
      ]_vars

\* a process preempted after two units of a quantum of three, by a process of
\* priority 0 that arrived while it ran
C7_Witness ==
    \E a, b \in UserPids :
        /\ quantum = DefaultQuantum
        /\ process_table[a].state = "READY"
        /\ process_table[a].preempt_count = 1
        /\ process_table[a].blocked_count = 0
        /\ process_table[a].total_burst - process_table[a].remaining_burst = 2
        /\ process_table[a].priority = 5
        /\ process_table[b].priority = 0
        /\ process_table[b].state = "READY"
        /\ process_table[b].start_tick = None

\* the level of the queue a process of this priority waits in
Level(pid) == ClampPriority(process_table[pid].priority)

NonEmptyLevels(e) == {l \in Levels : e.priority_queues[l] # <<>>}

\* the pids that successive get_next_process calls return, until None
RECURSIVE Drain(_)
Drain(e) ==
    LET r == get_next_process(e)
    IN IF r[1] = None THEN <<>> ELSE <<r[1]>> \o Drain(r[2])

\* the queues end to end, level 0 first
RECURSIVE QueuesFrom(_, _)
QueuesFrom(e, l) ==
    IF l > max_priority_levels - 1 THEN <<>>
    ELSE e.priority_queues[l] \o QueuesFrom(e, l + 1)

Position(s, x) == CHOOSE i \in 1..Len(s) : s[i] = x

\* C8: get_next_process returns and removes the head of the non-empty queue
\* of the smallest level, and returns None without touching a queue when
\* all are empty; so successive calls return the queues level by level, a
\* waiting process of priority 0 before one of priority 5, and two
\* processes enqueued at one level in the order of their enqueuing.
C8_GetNextProcess ==
    /\ LET r == get_next_process(Engine)
           ready == NonEmptyLevels(Engine)
       IN IF ready = {}
          THEN r = <<None, Engine>>
          ELSE LET l == CHOOSE m \in ready : \A k \in ready : m <= k
               IN /\ r[1] = Head(priority_queues[l])
                  /\ r[2] = [Engine EXCEPT !.priority_queues[l] = Tail(@)]
    /\ Drain(Engine) = QueuesFrom(Engine, 0)
    /\ \A a, b \in UserPids :
          (/\ QueueOccurrences(a) = 1 /\ QueueOccurrences(b) = 1
           /\ Level(a) < Level(b))
          => Position(Drain(Engine), a) < Position(Drain(Engine), b)
    /\ \A a, b \in UserPids :
          (/\ a # b
           /\ process_table[a].state = "READY"
           /\ process_table[b].state = "READY"
           /\ QueueOccurrences(a) = 0 /\ QueueOccurrences(b) = 0)
          => LET order == Drain(add_to_ready(add_to_ready(Engine, a), b))
             IN IF Level(b) < Level(a)
                THEN Position(order, b) < Position(order, a)
                ELSE Position(order, a) < Position(order, b)

\* the priority-0 process, enqueued last, has been returned while two
\* processes of level 5 still wait in the order of their enqueuing, the
\* later-created one first
C8_Witness ==
    /\ Table = 0..3
    /\ process_table[3].priority = 0
    /\ process_table[3].state = "READY"
    /\ QueueOccurrences(3) = 0
    /\ priority_queues[5] = <<2, 1>>
    /\ Drain(Engine) = <<2, 1>>

\* C10: on a fresh engine with p_block = 0 and any quantum, a lone
\* parentless process of burst b created at tick 0 and moved to READY has
\* used one unit in each tick, no tick idle, and after b ticks is
\* TERMINATED with end_tick = b and remaining_burst = 0.
C10_LoneProcess ==
    (1 \in Table /\ process_table[1].state # "NEW") =>
        LET P == process_table[1]
        IN /\ P.remaining_burst = P.total_burst - tick
           /\ cpu_busy_ticks = tick /\ idle_ticks = 0
           /\ tick < P.total_burst =>
                 /\ P.state \in {"READY", "RUNNING"}
                 /\ P.end_tick = None
           /\ tick = P.total_burst =>
                 /\ P.state = "TERMINATED"
                 /\ P.end_tick = P.total_burst
                 /\ P.remaining_burst = 0

\* the spec's case: burst 5, priority 0, quantum 3, done after five ticks,
\* one quantum preemption on the way
C10_Witness ==
    /\ 1 \in Table
    /\ quantum = 3
    /\ process_table[1].total_burst = 5
    /\ process_table[1].priority = 0
    /\ tick = 5
    /\ process_table[1].state = "TERMINATED"
    /\ process_table[1].end_tick = 5
    /\ process_table[1].preempt_count = 1

\* C11: for every burst >= 0, 0 included, 0 <= remaining_burst <=
\* total_burst in every state, and remaining_burst changes only by falling
\* by one in a tick or by being set to 0.
C11_RemainingBurstInRange ==
    [][/\ \A pid \in DOMAIN process_table' \ {0} :
             /\ 0 <= process_table'[pid].remaining_burst
             /\ process_table'[pid].remaining_burst
                   <= process_table'[pid].total_burst
       /\ \A pid \in UserPids \cap DOMAIN process_table' :
             process_table'[pid].remaining_burst
                   # process_table[pid].remaining_burst
             => \/ /\ TickStep
                   /\ process_table'[pid].remaining_burst =
                          process_table[pid].remaining_burst - 1
                \/ process_table'[pid].remaining_burst = 0
      ]_vars

\* C12: a process with io_remaining > 0 is BLOCKED, in every state.
C12_IoRemainingOnlyWhileBlocked ==
    \A pid \in Table :
        process_table[pid].io_remaining > 0
        => process_table[pid].state = "BLOCKED"

\* C13: every priority field is in 0..9 in every state, whatever priority
\* create_process or adjust_priority was given.
C13_PriorityInRange ==
    \A pid \in Table :
        process_table[pid].priority \in 0..(max_priority_levels - 1)

\* C14: create_process(parent_pid = p) with p in the table, pid 0 included,
\* appends the new pid once to the end of p's children and stores p on the
\* child; with p absent or not given no children list changes; the new
\* process is NEW with remaining_burst = total_burst, created_tick = tick,
\* and is in no queue or side-list.
C14_CreateRegistersChild ==
    [][\A b \in FamilyBursts, p \in FamilyParents :
          LET r == create_process(Engine, b, p, 5)
              new == r[1]
          IN (pid_counter' = pid_counter + 1
                /\ process_table' = r[2].process_table)
             =>
             /\ process_table'[new].parent_pid = p
             /\ process_table'[new].state = "NEW"
             /\ process_table'[new].total_burst = b
             /\ process_table'[new].remaining_burst = b
             /\ process_table'[new].created_tick = tick
             /\ Placements(new)' = 0
             /\ UNCHANGED <<priority_queues, blocked_list, zombie_list,
                            current_running_pid>>
             /\ \A q \in Table :
                   process_table'[q] =
                      IF q = p
                      THEN [process_table[q] EXCEPT
                               !.children = Append(@, new)]
                      ELSE process_table[q]
             /\ p \notin Table => process_table'[new].children = <<>>
      ]_vars

\* C15: in every state pid 0 is in the table, RUNNING, with its initial
\* remaining_burst, and in no ready queue, not in the blocked list, the
\* zombie list or the running slot: no operation terminates, blocks,
\* schedules or executes it.
C15_InitUntouched ==
    /\ 0 \in Table
    /\ process_table[0].state = "RUNNING"
    /\ process_table[0].remaining_burst = InitBurst
    /\ process_table[0].total_burst = InitBurst
    /\ process_table[0].start_tick = None
    /\ process_table[0].end_tick = None
    /\ process_table[0].blocked_count = 0
    /\ process_table[0].preempt_count = 0
    /\ Placements(0) = 0

\* ticks have run and user processes were blocked and terminated, while
\* blocking and terminating pid 0 fail
C15_Witness ==
    /\ tick = MaxTick
    /\ idle_ticks = 0
    /\ \E a, b \in UserPids :
          /\ process_table[a].state = "BLOCKED"
          /\ process_table[b].state = "TERMINATED"
    /\ ~force_block_process(Engine, 0, 1)[1]
    /\ ~force_terminate_process(Engine, 0)[1]
    /\ process_table[0].state = "RUNNING"

\* C16: a failing call changes nothing: force_block_process on an unknown
\* pid, pid 0 or a process not READY or RUNNING, force_terminate_process on
\* an unknown pid, pid 0 or a TERMINATED process, wait_for_child and
\* adjust_priority on an unknown pid return False (or the empty list) and
\* leave the table, the queues and lists, the slot, the counters and the
\* event log as they were.
C16_FailingCallsChangeNothing ==
    /\ \A pid \in Pids, io \in IoTimes :
          (\/ pid \notin Table
           \/ pid = 0
           \/ process_table[pid].state \notin {"READY", "RUNNING"})
          => force_block_process(Engine, pid, io) = <<FALSE, Engine>>
    /\ \A pid \in Pids :
          (\/ pid \notin Table
           \/ pid = 0
           \/ process_table[pid].state = "TERMINATED")
          => force_terminate_process(Engine, pid) = <<FALSE, Engine>>
    /\ \A pid \in Pids :
          pid \notin Table => wait_for_child(Engine, pid) = <<(<<>>), Engine>>
    /\ \A pid \in Pids, n \in NewPriorities :
          pid \notin Table => adjust_priority(Engine, pid, n) = <<FALSE, Engine>>

\* every failing case at once: pid 2 unknown, pid 1 TERMINATED after it ran,
\* pid 0, while the clock and the counters have moved
C16_Witness ==
    /\ Table = {0, 1}
    /\ process_table[1].state = "TERMINATED"
    /\ process_table[1].end_tick = 1
    /\ tick = 2
    /\ cpu_busy_ticks = 1 /\ idle_ticks = 1
    /\ force_terminate_process(Engine, 1) = <<FALSE, Engine>>
    /\ force_block_process(Engine, 2, 1) = <<FALSE, Engine>>

\* the io_time arguments tried on every state
BlockTimes == {1, 2, 5}

\* C17: force_block_process(pid, k) on a READY or RUNNING process other
\* than pid 0 succeeds and leaves it BLOCKED with io_remaining = k and
\* blocked_count one higher, once in the blocked list and in no ready queue;
\* the slot is emptied, with current_quantum_used = 0, if it ran; the other
\* pids keep their order in the queues and every other process is unchanged.
C17_ForceBlockEffect ==
    \A pid \in UserPids, k \in BlockTimes :
        process_table[pid].state \in {"READY", "RUNNING"} =>
           LET r == force_block_process(Engine, pid, k)
               after == r[2]
           IN /\ r[1]
              /\ after.process_table =
                    [process_table EXCEPT
                        ![pid].state = "BLOCKED",
                        ![pid].io_remaining = k,
                        ![pid].blocked_count = @ + 1]
              /\ Occurrences(after.blocked_list, pid) = 1
              /\ after.blocked_list = Append(blocked_list, pid)
              /\ after.priority_queues =
                    [l \in Levels |->
                        SelectSeq(priority_queues[l], LAMBDA x : x # pid)]
              /\ IF current_running_pid = pid
                 THEN /\ after.current_running_pid = None
                      /\ after.current_quantum_used = 0
                 ELSE /\ after.current_running_pid = current_running_pid
                      /\ after.current_quantum_used = current_quantum_used
              /\ after.zombie_list = zombie_list

\* a process blocked by force_block_process while it held the CPU, in the
\* tick of its dispatch, another one waiting in a queue
C17_Witness ==
    \E a, b \in UserPids :
        /\ tick = 1
        /\ process_table[a].state = "BLOCKED"
        /\ process_table[a].start_tick = 1
        /\ process_table[a].preempt_count = 0
        /\ process_table[a].blocked_count = 1
        /\ process_table[a].io_remaining = 1
        /\ blocked_list = <<a>>
        /\ current_running_pid = None /\ current_quantum_used = 0
        /\ process_table[b].state = "READY"
        /\ QueueOccurrences(b) = 1

\* C18: force_terminate_process(pid) on a process other than pid 0 that is
\* NEW, READY, RUNNING, BLOCKED or ZOMBIE succeeds and leaves it with
\* remaining_burst = 0, an end_tick, state TERMINATED or ZOMBIE, in no ready
\* queue, not in the blocked list and not in the slot (emptied, with
\* current_quantum_used = 0, if it ran); it is in the zombie list exactly
\* when its state is ZOMBIE.
C18_ForceTerminateEffect ==
    \A pid \in UserPids :
        process_table[pid].state # "TERMINATED" =>
           LET r == force_terminate_process(Engine, pid)
               after == r[2]
               P == after.process_table[pid]
           IN /\ process_table[pid].state \in
                    {"NEW", "READY", "RUNNING", "BLOCKED", "ZOMBIE"}
              /\ r[1]
              /\ P.remaining_burst = 0
              /\ P.end_tick # None /\ P.end_tick = tick
              /\ P.state \in {"TERMINATED", "ZOMBIE"}
              /\ \A l \in Levels : pid \notin Range(after.priority_queues[l])
              /\ pid \notin Range(after.blocked_list)
              /\ after.current_running_pid # pid
              /\ IF current_running_pid = pid
                 THEN /\ after.current_running_pid = None
                      /\ after.current_quantum_used = 0
                 ELSE /\ after.current_running_pid = current_running_pid
                      /\ after.current_quantum_used = current_quantum_used
              /\ pid \in Range(after.zombie_list) <=> P.state = "ZOMBIE"
              /\ Occurrences(after.zombie_list, pid) <= 1
              /\ \A q \in Table \ {pid} :
                    after.process_table[q] = process_table[q]

\* a child terminated by force_terminate_process while it was BLOCKED after
\* its first unit: a ZOMBIE whose burst was cut to 0
C18_Witness ==
    \E a \in UserPids :
        /\ process_table[a].state = "ZOMBIE"
        /\ process_table[a].blocked_count = 1
        /\ process_table[a].total_burst = 3
        /\ process_table[a].start_tick = 1
        /\ process_table[a].end_tick = 1
        /\ process_table[a].remaining_burst = 0
        /\ zombie_list = <<a>>
        /\ blocked_list = <<>>
        /\ QueueOccurrences(a) = 0

\* the blocked pids whose I/O ends in the next tick, in blocked-list order
Unblocking == SelectSeq(blocked_list,
                        LAMBDA x : process_table[x].io_remaining = 1)

\* C19: a BLOCKED process with io_remaining = k >= 1 loses one unit of
\* io_remaining per tick; while k > 1 it stays BLOCKED and in the blocked
\* list; in the tick that finds k = 1 it becomes READY with io_remaining = 0,
\* leaves the blocked list and is appended to the queue of its current
\* priority before that tick's scheduling step, so that the same tick can
\* dispatch it.
C19_BlockedAdvance ==
    /\ LET after == _handle_blocked_processes([Engine EXCEPT !.tick = @ + 1])
       IN /\ \A pid \in Range(blocked_list) :
                LET k == process_table[pid].io_remaining
                IN k >= 1 =>
                      after.process_table[pid] =
                         [process_table[pid] EXCEPT
                             !.io_remaining = k - 1,
                             !.state = IF k = 1 THEN "READY" ELSE "BLOCKED"]
          /\ after.blocked_list =
                SelectSeq(blocked_list, LAMBDA x : x \notin Range(Unblocking))
          /\ after.priority_queues =
                [l \in Levels |->
                    priority_queues[l]
                       \o SelectSeq(Unblocking, LAMBDA x : Level(x) = l)]
    /\ \A after \in tick_simulation(Engine) :
          \A pid \in Range(blocked_list) :
             LET k == process_table[pid].io_remaining
                 P == after.process_table[pid]
             IN /\ k > 1 =>
                     /\ P = [process_table[pid] EXCEPT !.io_remaining = k - 1]
                     /\ Occurrences(after.blocked_list, pid) = 1
                /\ (/\ k = 1
                    /\ P.blocked_count = process_table[pid].blocked_count)
                   => /\ P.io_remaining = 0
                      /\ P.state \in {"READY", "RUNNING", "TERMINATED"}
                      /\ pid \notin Range(after.blocked_list)
                /\ (/\ k = 1
                    /\ current_running_pid = None
                    /\ \A q \in Range(Unblocking) \ {pid} :
                          \/ Level(pid) < Level(q)
                          \/ /\ Level(pid) = Level(q)
                             /\ Position(Unblocking, pid)
                                   < Position(Unblocking, q)
                    /\ \A l \in 0..Level(pid) : priority_queues[l] = <<>>
                    /\ \A q \in Table :
                          process_table[q].state = "NEW" =>
                             Level(pid) <= Level(q))
                   => /\ P.start_tick # None
                      /\ P.remaining_burst =
                            process_table[pid].remaining_burst - 1

\* a lone process blocked for two ticks after its first unit, at tick 1:
\* tick 2 was idle, tick 3 unblocked it and ran its second unit
C19_Witness ==
    /\ Table = {0, 1}
    /\ tick = 3
    /\ idle_ticks = 1
    /\ process_table[1].start_tick = 1
    /\ process_table[1].blocked_count = 1
    /\ process_table[1].io_remaining = 0
    /\ process_table[1].state = "RUNNING"
    /\ process_table[1].remaining_burst = process_table[1].total_burst - 2

\* the NEW processes, in ascending pid order
NewPids == SortedPids({pid \in Table : process_table[pid].state = "NEW"})

\* C20: move_new_to_ready returns the number of NEW processes; afterwards
\* none is NEW, each of them is READY and was appended, in ascending pid
\* order, to the queue of its priority; nothing else changes, and a second
\* call at once returns 0 and changes nothing.
C20_MoveNewToReady ==
    LET r == move_new_to_ready(Engine)
        after == r[2]
    IN /\ r[1] = Cardinality({pid \in Table : process_table[pid].state = "NEW"})
       /\ \A pid \in Table : after.process_table[pid].state # "NEW"
       /\ after =
             [Engine EXCEPT
                !.process_table =
                    [pid \in Table |->
                        IF process_table[pid].state = "NEW"
                        THEN [process_table[pid] EXCEPT !.state = "READY"]
                        ELSE process_table[pid]],
                !.priority_queues =
                    [l \in Levels |->
                        priority_queues[l]
                           \o SelectSeq(NewPids, LAMBDA x : Level(x) = l)],
                !.event_logs =
                    [i \in 1..Len(NewPids) |->
                        <<tick, "NEW -> READY", NewPids[i]>>]]
       /\ move_new_to_ready([after EXCEPT !.event_logs = <<>>])
             = <<0, [after EXCEPT !.event_logs = <<>>]>>

\* two processes created at tick 0 and moved together: both READY in the
\* queue of level 5, the lower pid ahead, nothing dispatched yet
C20_Witness ==
    /\ Table = {0, 1, 2}
    /\ tick = 0
    /\ process_table[1].state = "READY"
    /\ process_table[2].state = "READY"
    /\ priority_queues[5] = <<1, 2>>
    /\ current_running_pid = None
    /\ move_new_to_ready(Engine)[1] = 0

\* the new_priority arguments tried on every state
AdjustTargets == {0 - 3, 0, 5, 9, 11}

\* C21: adjust_priority(pid, n) on a known pid sets the priority field to n
\* clamped into 0..9; a READY process leaves its old queue and goes to the
\* tail of the queue of the new priority, so that it is in that queue and in
\* no other; for a process that is not READY no queue changes; the states,
\* the running slot and every other process stay as they are.
C21_AdjustPriority ==
    \A pid \in Table, n \in AdjustTargets :
        LET r == adjust_priority(Engine, pid, n)
            after == r[2]
            c == IF n < 0 THEN 0 ELSE IF n > 9 THEN 9 ELSE n
            without == [l \in Levels |->
                           SelectSeq(priority_queues[l], LAMBDA x : x # pid)]
        IN /\ r[1]
           /\ after =
                 [Engine EXCEPT
                    !.process_table[pid].priority = c,
                    !.priority_queues =
                        IF process_table[pid].state = "READY"
                        THEN [without EXCEPT ![c] = Append(@, pid)]
                        ELSE priority_queues]
           /\ process_table[pid].state = "READY" =>
                 \A l \in Levels :
                    Occurrences(after.priority_queues[l], pid)
                       = IF l = c THEN 1 ELSE 0

\* a READY process of priority 5 adjusted with -3: its field is 0 and it
\* waits in the queue of level 0 behind the process that was there
C21_Witness ==
    /\ Table = {0, 1, 2}
    /\ process_table[1].state = "READY"
    /\ process_table[1].priority = 0
    /\ process_table[2].state = "READY"
    /\ process_table[2].priority = 0 - 2
    /\ priority_queues[0] = <<2, 1>>
    /\ priority_queues[5] = <<>>

\* the level of the queue that holds pid
QueueLevel(pid) == CHOOSE l \in Levels : pid \in Range(priority_queues[l])

\* the tick in which the scheduler runs its aging pass
AgingPass ==
    /\ TickStep
    /\ priority_boost_counter = priority_boost_interval - 1
    /\ priority_boost_counter' = 0

\* C22: one aging pass moves a waiting process by at most one level: a
\* process that waits in the queue of level p before the pass and was not
\* dispatched in its tick waits afterwards in the queue of level p or p - 1
\* (level 0 stays), once, with its priority field equal to that level.
C22_AgingOneLevel ==
    [][AgingPass =>
          \A pid \in UserPids :
             (/\ QueueOccurrences(pid) = 1
              /\ process_table'[pid].remaining_burst
                    = process_table[pid].remaining_burst)
             => /\ QueueOccurrences(pid)' = 1
                /\ QueueLevel(pid)' \in {QueueLevel(pid), QueueLevel(pid) - 1}
                /\ QueueLevel(pid) = 0 => QueueLevel(pid)' = 0
                /\ process_table'[pid].priority = QueueLevel(pid)'
      ]_vars

ProperPrefix(s, t) == Len(s) < Len(t) /\ s = SubSeq(t, 1, Len(s))

\* the outcome of a call is a function of the values drawn: equal draws
\* give the same state and log entries, and the values drawn so far decide
\* whether another one is drawn
Deterministic(outcomes) ==
    \A x, y \in outcomes :
        /\ x.draws = y.draws => x.e = y.e
        /\ ~ProperPrefix(x.draws, y.draws)

C24_ResetOnlyRemoves ==
    [][/\ LET r == reset(Engine)
              fresh == NewEngine(p_block, auto_reap_after)
          IN /\ r.tick = 0 /\ r.pid_counter = 1
             /\ DOMAIN r.process_table = {0}
             /\ r.process_table = fresh.process_table
             /\ \A l \in Levels : r.priority_queues[l] = <<>>
             /\ r.blocked_list = <<>> /\ r.zombie_list = <<>>
             /\ r.current_running_pid = None
             /\ r.current_quantum_used = 0 /\ r.context_switches = 0
             /\ r.cpu_busy_ticks = 0 /\ r.idle_ticks = 0
             /\ r = [fresh EXCEPT !.quantum = quantum,
                                  !.event_logs = <<(<<0, "created", 0>>)>>]
       /\ ~(Table \subseteq DOMAIN process_table') => Install(reset(Engine))
      ]_vars

\* a TERMINATED and a ZOMBIE process are still in the table after the last
\* tick, a process runs, and reset would leave pid 0 alone
C24_Witness ==
    /\ tick = MaxTick
    /\ \E a, b \in UserPids :
          /\ process_table[a].state = "TERMINATED"
          /\ process_table[b].state = "ZOMBIE"
    /\ context_switches > 0 /\ cpu_busy_ticks > 0
    /\ DOMAIN reset(Engine).process_table = {0}
    /\ reset(Engine).context_switches = 0

\* the processes other than pid 0 that are in this state
CountIn(st) == Cardinality({pid \in UserPids : process_table[pid].state = st})

\* C25: in the get_metrics snapshot taken after any operation,
\* total_processes is the number of processes other than pid 0, running is
\* 1 exactly when the running slot is occupied and 0 otherwise, and ready,
\* blocked and zombie are the numbers of READY, BLOCKED and ZOMBIE processes
\* other than pid 0.
C25_MetricsCounts ==
    [][(LET m == get_metrics(Engine)
        IN /\ m.total_processes = Cardinality(UserPids)
           /\ m.running = (IF current_running_pid # None THEN 1 ELSE 0)
           /\ m.running = CountIn("RUNNING")
           /\ m.ready = CountIn("READY")
           /\ m.blocked = CountIn("BLOCKED")
           /\ m.zombie = CountIn("ZOMBIE"))'
      ]_vars

\* C26: the window serializes the calls into the engine: while the
\* background thread is inside tick_simulation no callback of the main
\* thread is inside an engine operation, and the other way round.
C26_CallsSerialized ==
    ~(auto_thread \in InsideTick /\ gui_thread # <<"idle">>)

\* C27: bounded reaping.  With auto_reap_after = N > 0 a process that
\* entered ZOMBIE at tick t is no longer ZOMBIE once tick t + N has run,
\* whatever operations came between the ticks, force_terminate_process on
\* the zombie included, and a process that leaves ZOMBIE is TERMINATED with
\* reaped = true.  Every burst of this specification is 1 and nothing
\* blocks, so a process that was dispatched terminated in the tick of its
\* dispatch: for one that is ZOMBIE, start_tick is the tick it first was.
C27_BoundedReaping ==
    [][auto_reap_after > 0 =>
          \A pid \in UserPids \cap DOMAIN process_table' :
             /\ (/\ process_table'[pid].state = "ZOMBIE"
                 /\ process_table'[pid].start_tick # None)
                => tick' < process_table'[pid].start_tick + auto_reap_after
             /\ (IsZombie(pid) /\ process_table'[pid].state # "ZOMBIE")
                => /\ process_table'[pid].state = "TERMINATED"
                   /\ process_table'[pid].reaped
      ]_vars

\* the step of tick_simulation that logs an entry of this kind
StepOf(kind) ==
    CASE kind = "unblocked" -> 1
      [] kind = "NEW -> READY" -> 2
      [] kind = "auto-reaped" -> 4
      [] OTHER -> 3

\* nothing that is dispatched ahead of pid waits, unblocks or is admitted
FirstInLine(pid) ==
    /\ current_running_pid = None
    /\ \A l \in 0..Level(pid) : priority_queues[l] = <<>>
    /\ \A q \in Range(Unblocking) \ {pid} :
          \/ Level(pid) < Level(q)
          \/ /\ Level(pid) = Level(q)
             /\ pid \in Range(Unblocking)
             /\ Position(Unblocking, pid) < Position(Unblocking, q)
    /\ \A q \in Range(NewPids) \ {pid} :
          \/ Level(pid) < Level(q)
          \/ /\ Level(pid) = Level(q)
             /\ (pid \in Range(Unblocking) \/ pid < q)

\* C28: the steps of a tick run in the order unblock, admit the NEW
\* processes, schedule and execute, auto-reap.  So the entries a tick logs
\* come in that order; at equal priority a process unblocked in the tick is
\* ahead of one admitted from NEW in it, which is not dispatched before it;
\* either of them, when first in line, executes in that same tick; and a
\* process that became ZOMBIE in the tick has been through its auto-reap.
C28_TickStepOrder ==
    \A after \in tick_simulation(Engine) :
        LET log == after.event_logs
            ran(pid) == after.process_table[pid].remaining_burst
                           = process_table[pid].remaining_burst - 1
            waits(pid) == pid \in Range(after.priority_queues[Level(pid)])
        IN /\ after.tick = tick + 1
           /\ \A i, j \in 1..Len(log) :
                 i < j => StepOf(log[i][2]) <= StepOf(log[j][2])
           /\ \A u \in Range(Unblocking), n \in Range(NewPids) :
                 Level(u) = Level(n) =>
                    /\ ~ran(n)
                    /\ after.process_table[n].start_tick = None
                    /\ (waits(u) /\ waits(n) /\ ~ran(u)) =>
                          Position(after.priority_queues[Level(u)], u)
                             < Position(after.priority_queues[Level(n)], n)
           /\ \A pid \in Range(Unblocking) \cup Range(NewPids) :
                 FirstInLine(pid) =>
                    /\ ran(pid)
                    /\ after.process_table[pid].start_tick # None
                    /\ process_table[pid].state = "NEW" =>
                          after.process_table[pid].start_tick = tick + 1
           /\ \A pid \in UserPids :
                 (/\ process_table[pid].state # "ZOMBIE"
                  /\ after.process_table[pid].state = "ZOMBIE")
                 => /\ pid \in Range(after.zombie_list)
                    /\ after.process_table[pid].end_tick = tick + 1
                    /\ after.auto_reap_after > 0 =>
                          after.tick - after.process_table[pid].end_tick
                             < after.auto_reap_after

\* tick 2 unblocked a process of burst 3 that had run in tick 1 and
\* dispatched it, ahead of a process of its priority that was created after
\* tick 1 and admitted in tick 2
C28_Witness ==
    \E u, n \in UserPids :
        /\ tick = 2
        /\ process_table[u].blocked_count = 1
        /\ process_table[u].io_remaining = 0
        /\ process_table[u].start_tick = 1
        /\ process_table[u].remaining_burst = 1
        /\ current_running_pid = u
        /\ process_table[n].created_tick = 1
        /\ process_table[n].state = "READY"
        /\ process_table[n].start_tick = None
        /\ process_table[n].priority = process_table[u].priority
        /\ QueueOccurrences(n) = 1

\* a waits ahead of b in the queue of level l
Ahead(l, a, b) ==
    /\ a \in Range(priority_queues[l]) /\ b \in Range(priority_queues[l])
    /\ Position(priority_queues[l], a) < Position(priority_queues[l], b)

\* the step is a call of adjust_priority
ByAdjustPriority ==
    /\ UNCHANGED <<tick, pid_counter, quantum>>
    /\ \E pid \in Table, n \in PreemptPriorities :
          LET after == adjust_priority(Engine, pid, n)[2]
          IN /\ process_table' = after.process_table
             /\ priority_queues' = after.priority_queues

\* C29: round-robin within a level.  A preemption makes the running process
\* READY at the tail of the queue of its priority, with preempt_count and
\* context_switches one higher each, the running slot empty and
\* current_quantum_used = 0; so, while no priority is adjusted, a process
\* that waits ahead of another in a queue stays ahead of it until it is
\* dispatched, and the one behind is not dispatched before it.
C29_RoundRobinWithinLevel ==
    [][/\ \A P \in UserPids :
             process_table'[P].preempt_count # process_table[P].preempt_count
             => /\ TickStep
                /\ process_table'[P].preempt_count
                      = process_table[P].preempt_count + 1
                /\ process_table'[P].state = "READY"
                /\ AtTailOfItsQueue(P)'
                /\ QueueOccurrences(P)' = 1
                /\ current_running_pid' = None
                /\ current_quantum_used' = 0
                /\ context_switches' =
                      context_switches + 1
                         + (IF current_running_pid = P THEN 0 ELSE 1)
       /\ current_running_pid # None =>
             LET P == current_running_pid
                 after == _preempt_process(Engine, P)
             IN after =
                   [Engine EXCEPT
                       !.process_table[P].state = "READY",
                       !.process_table[P].preempt_count = @ + 1,
                       !.priority_queues[Level(P)] = Append(@, P),
                       !.current_running_pid = None,
                       !.current_quantum_used = 0,
                       !.context_switches = @ + 1]
       /\ ~ByAdjustPriority =>
             \A l \in Levels, a, b \in UserPids :
                Ahead(l, a, b) =>
                   /\ ~ExecutedOn(b)
                   /\ process_table'[b].start_tick = process_table[b].start_tick
                   /\ \/ Ahead(l, a, b)'
                      \/ ExecutedOn(a)
      ]_vars

\* quantum 1, two processes of one priority: the first ran in ticks 1 and 3,
\* the second in tick 2 between its two preemptions, and waits ahead of it
\* again
C29_Witness ==
    \E P, a \in UserPids :
        /\ quantum = 1 /\ tick = 3
        /\ process_table[P].priority = process_table[a].priority
        /\ process_table[P].start_tick = 1
        /\ process_table[a].start_tick = 2
        /\ process_table[P].preempt_count = 2
        /\ process_table[a].preempt_count = 1
        /\ Ahead(Level(P), a, P)
        /\ AtTailOfItsQueue(P)
        /\ context_switches = 6

\* how many times pid appears in the queues of e
OccurrencesIn(e, pid) ==
    Cardinality({lv \in Levels \X (1..OpsProcs + 2) :
                    /\ lv[2] <= Len(e.priority_queues[lv[1]])
                    /\ e.priority_queues[lv[1]][lv[2]] = pid})

\* C30: whatever PriorityScheduler operations were called, each pid occurs
\* at most once across all priority queues, and add_to_ready on a pid that
\* already waits in some queue adds no second occurrence.
C30_SchedulerNoDuplicate ==
    \A pid \in OpsPids :
        /\ OccurrencesIn(Engine, pid) <= 1
        /\ OccurrencesIn(Engine, pid) = 1
              => OccurrencesIn(add_to_ready(Engine, pid), pid) = 1

\* C9: since construction or the last reset the k-th create_process returns
\* pid k (1, 2, 3, ...: never 0, never a pid already in the table), whatever
\* other operations are interleaved, and pid 0 is always in the table.
C9_PidsSequential ==
    /\ 0 \in DOMAIN process_table
    /\ DOMAIN process_table = 0..(pid_counter - 1)
    /\ \A b \in Bursts, pp \in ParentPids, pr \in Priorities :
          LET r == create_process(Engine, b, pp, pr)
          IN /\ r[1] = Cardinality(DOMAIN process_table \ {0}) + 1
             /\ r[1] \notin DOMAIN process_table
             /\ DOMAIN r[2].process_table = DOMAIN process_table \cup {r[1]}

C9_Witness ==
    /\ DOMAIN process_table = {0, 1, 2}
    /\ process_table[1].state = "TERMINATED"
    /\ process_table[2].state = "NEW"
    /\ process_table[2].created_tick > 0

\* the engine when the scheduling step of the next tick begins
AtSchedulingStep ==
    move_new_to_ready(
        _handle_blocked_processes([Engine EXCEPT !.tick = @ + 1]))[2]

\* C31: cpu_busy_ticks + idle_ticks = tick in every state; a tick either
\* takes one burst unit from exactly one process and counts one busy unit,
\* or takes none and counts one idle unit; it is idle exactly when, at its
\* scheduling step, the running slot is empty and every ready queue is
\* empty, and then no process is READY.
C31_CpuAccounting ==
    [][/\ cpu_busy_ticks + idle_ticks = tick
       /\ cpu_busy_ticks' + idle_ticks' = tick'
       /\ TickStep =>
             LET mid == AtSchedulingStep
                 free == /\ mid.current_running_pid = None
                         /\ mid.priority_queues = EmptyQueues
                 idle == idle_ticks' = idle_ticks + 1
                 executed == {pid \in Table :
                                process_table'[pid].remaining_burst
                                   # process_table[pid].remaining_burst}
             IN /\ DOMAIN process_table' = Table
                /\ \/ /\ cpu_busy_ticks' = cpu_busy_ticks + 1
                      /\ idle_ticks' = idle_ticks
                      /\ \E pid \in Table :
                            executed = {pid} /\ ExecutedOn(pid)
                   \/ /\ idle
                      /\ cpu_busy_ticks' = cpu_busy_ticks
                      /\ executed = {}
                /\ idle <=> free
                /\ idle => \A pid \in Table :
                              mid.process_table[pid].state # "READY"
      ]_vars

\* a busy tick and an idle tick, with a process that ran to its end
C31_Witness ==
    /\ tick = 2 /\ cpu_busy_ticks = 1 /\ idle_ticks = 1
    /\ \E pid \in UserPids :
          /\ process_table[pid].state = "TERMINATED"
          /\ process_table[pid].end_tick = 1

\* C32: whatever io_time it was blocked with, a BLOCKED process gets nearer
\* to READY in every tick: the tick's unblocking step makes it READY, or
\* leaves it BLOCKED with an io_remaining that is smaller than before and
\* still at least 1, so that finitely many ticks make it READY.
C32_UnblockProgress ==
    [][TickStep =>
          \A pid \in UserPids :
             process_table[pid].state = "BLOCKED" =>
                LET mid == _handle_blocked_processes(
                               [Engine EXCEPT !.tick = @ + 1])
                    io == mid.process_table[pid].io_remaining
                IN \/ mid.process_table[pid].state = "READY"
                   \/ /\ 1 <= io /\ io < process_table[pid].io_remaining
                      /\ process_table'[pid].state = "BLOCKED"
                      /\ process_table'[pid].io_remaining = io
      ]_vars

\* C33: in every state, between ticks too, a process other than pid 0 is
\* READY iff its pid is in the ready queues, and then once; BLOCKED iff it is
\* in the blocked list, and then once; ZOMBIE iff it is in the zombie list,
\* and then once; RUNNING iff it is current_running_pid; a NEW or TERMINATED
\* process is in none of these structures.
C33_StateMatchesStructures ==
    \A pid \in UserPids :
        LET state == process_table[pid].state
        IN /\ QueueOccurrences(pid) = (IF state = "READY" THEN 1 ELSE 0)
           /\ Occurrences(blocked_list, pid)
                 = (IF state = "BLOCKED" THEN 1 ELSE 0)
           /\ Occurrences(zombie_list, pid)
                 = (IF state = "ZOMBIE" THEN 1 ELSE 0)
           /\ (current_running_pid = pid) <=> (state = "RUNNING")
           /\ state \in {"NEW", "TERMINATED"} => Placements(pid) = 0

\* before any tick: a process blocked by force and its child, terminated by
\* force and waiting as a zombie
C33_Witness ==
    /\ tick = 0
    /\ {1, 2} \subseteq Table
    /\ process_table[1].state = "BLOCKED"
    /\ blocked_list = <<1>>
    /\ process_table[2].state = "ZOMBIE"
    /\ zombie_list = <<2>>

\* every pid waiting in the queue of level q has priority q
LevelsMatch(e) ==
    \A q \in Levels :
        \A pid \in Range(e.priority_queues[q]) :
            /\ pid \in DOMAIN e.process_table
            /\ e.process_table[pid].priority = q

\* C34: with priorities given in 0..9, every pid waiting in the ready queue
\* of level q belongs to a process whose priority field is q, in every state
\* and after an aging pass run in that state, whatever the state of the
\* processes whose priority was adjusted.
C34_QueueLevelIsPriority ==
    /\ LevelsMatch(Engine)
    /\ \A aged \in _priority_aging(Engine) : LevelsMatch(aged)

\* a process that was blocked and waits again, after a tick, in the queue of
\* its priority, and another one waiting at another level
C34_Witness ==
    /\ tick >= 1
    /\ \E pid, other \in UserPids :
          /\ process_table[pid].blocked_count = 1
          /\ process_table[pid].state = "READY"
          /\ pid \in Range(priority_queues[Level(pid)])
          /\ process_table[other].state = "READY"
          /\ Level(other) # Level(pid)
          /\ \E aged \in _priority_aging(Engine) :
                aged.process_table[other].priority
                   # process_table[other].priority

\* C35: waiting_for_child is false for every process in every state; so a
\* process that dies is never marked reaped at its death, it becomes ZOMBIE
\* whenever its parent_pid is a pid other than 0 that is in the table, and a
\* reaped flag is only ever set on a process that was ZOMBIE, which becomes
\* TERMINATED.
C35_NeverWaitingForChild ==
    [][/\ \A pid \in Table : ~process_table[pid].waiting_for_child
       /\ \A pid \in DOMAIN process_table' :
             ~process_table'[pid].waiting_for_child
       /\ \A pid \in Table :
             Dies(pid) =>
                /\ ~process_table'[pid].reaped
                /\ (/\ Truthy(process_table[pid].parent_pid)
                    /\ process_table[pid].parent_pid \in Table)
                      => /\ process_table'[pid].state = "ZOMBIE"
                         /\ Occurrences(zombie_list', pid) = 1
       /\ \A pid \in Table \cap DOMAIN process_table' :
             (process_table'[pid].reaped /\ ~process_table[pid].reaped)
                => /\ process_table[pid].state = "ZOMBIE"
                   /\ process_table'[pid].state = "TERMINATED"
      ]_vars

\* one child reaped by its parent, another one still a zombie
C35_Witness ==
    \E pid, z \in UserPids :
        /\ process_table[pid].reaped
        /\ process_table[pid].state = "TERMINATED"
        /\ process_table[z].state = "ZOMBIE"
        /\ process_table[z].parent_pid = process_table[pid].parent_pid
        /\ ~process_table[process_table[z].parent_pid].waiting_for_child

\* C36: every ZOMBIE can be reaped by its parent: its parent_pid is a pid
\* of the table, the children list of that process contains it, and
\* wait_for_child on that pid returns it.
C36_ZombieReapableByParent ==
    \A z \in UserPids :
        process_table[z].state = "ZOMBIE" =>
            LET parent_pid == process_table[z].parent_pid
            IN /\ parent_pid \in Table
               /\ z \in Range(process_table[parent_pid].children)
               /\ z \in Range(wait_for_child(Engine, parent_pid)[1])

RECURSIVE SumOf(_, _)
SumOf(f, S) ==
    IF S = {} THEN 0
    ELSE LET x == CHOOSE y \in S : TRUE
         IN f[x] + SumOf(f, S \ {x})

\* the processes, other than pid 0, that are neither ZOMBIE nor TERMINATED
Unfinished ==
    {pid \in UserPids : process_table[pid].state \notin {"ZOMBIE", "TERMINATED"}}

\* burst units the unfinished processes still have to execute
Work == SumOf([pid \in Unfinished |-> process_table[pid].remaining_burst],
              Unfinished)

\* ticks the BLOCKED processes still have to wait
Wait ==
    LET blocked == {pid \in Unfinished : process_table[pid].state = "BLOCKED"}
    IN SumOf([pid \in blocked |-> process_table[pid].io_remaining], blocked)

\* C37: ticks alone bring every process to its end, from any state.  While
\* some process other than pid 0 is unfinished, a tick is busy and lowers
\* the sum of the remaining bursts of the unfinished processes, or it is
\* idle, leaves that sum and lowers the sum of the io waits, both sums
\* staying non-negative; and with auto_reap_after > 0 a ZOMBIE is either
\* TERMINATED by the tick or younger than auto_reap_after after it.
C37_TicksTerminate ==
    [][TickStep =>
          /\ Unfinished # {} =>
                \/ /\ cpu_busy_ticks' = cpu_busy_ticks + 1
                   /\ Work' < Work /\ Work' >= 0
                \/ /\ idle_ticks' = idle_ticks + 1
                   /\ Work' = Work
                   /\ Wait' < Wait /\ Wait' >= 0
          /\ \A z \in UserPids :
                (process_table[z].state = "ZOMBIE" /\ auto_reap_after > 0) =>
                   \/ process_table'[z].state = "TERMINATED"
                   \/ /\ process_table'[z].state = "ZOMBIE"
                      /\ process_table'[z].end_tick = process_table[z].end_tick
                      /\ tick' - process_table'[z].end_tick < auto_reap_after
      ]_vars

\* the waiting time of the process is a negative number
NegativeWait(p) == get_waiting_time(p) # <<>> /\ get_waiting_time(p)[1] < 0

\* C38: a process whose burst is used up by execution ends with
\* end_tick - created_tick >= total_burst, a waiting time >= 0 and
\* created_tick < start_tick <= end_tick; a waiting time turns negative only
\* in a force_terminate_process call on that process.
C38_WaitingTimeNonNegative ==
    [][/\ TickStep =>
             \A pid \in UserPids :
                Dies(pid) =>
                   LET p == process_table'[pid]
                   IN /\ p.end_tick = tick'
                      /\ p.remaining_burst <= 0
                      /\ p.end_tick - p.created_tick >= p.total_burst
                      /\ get_turnaround_time(p)
                            = <<p.end_tick - p.created_tick>>
                      /\ get_waiting_time(p) # <<>>
                      /\ get_waiting_time(p)[1] >= 0
                      /\ p.start_tick # None
                      /\ p.created_tick < p.start_tick
                      /\ p.start_tick <= p.end_tick
       /\ \A pid \in Table \cap DOMAIN process_table' :
             (NegativeWait(process_table'[pid])
                 /\ ~NegativeWait(process_table[pid]))
                => /\ ~TickStep
                   /\ process_table'
                         = force_terminate_process(Engine, pid)[2].process_table
      ]_vars

\* a lone process that received the first three ticks and ended in the third
C38_Witness ==
    /\ tick = 3 /\ cpu_busy_ticks = 3 /\ pid_counter = 2
    /\ process_table[1].state = "TERMINATED"
    /\ process_table[1].start_tick = 1
    /\ process_table[1].end_tick = 3
    /\ get_waiting_time(process_table[1]) = <<0>>

\* C39: whatever the order of Start Auto, Pause and Reset, at most one
\* thread running _auto_simulation_loop is alive, and no tick_simulation is
\* issued while is_running is false, that is after Pause or Reset returned.
C39_SingleAutoThread ==
    [][/\ LiveThreads' <= 1
       /\ TickStep => is_running
      ]_vars

====
